---- MODULE Spec2Model ----
(***************************************************************************)
(* Model of the rustogrammer conditions, spectra and ring items:           *)
(*   src/src/conditions/mod.rs      Condition trait, True, False,          *)
(*                                  ConditionDictionary                    *)
(*   src/src/conditions/compound.rs Not, And, Or, ConditionList            *)
(*   src/src/spectra/summary.rs     Summary spectrum                       *)
(*   src/src/spectra/pgamma.rs      PGamma spectrum                        *)
(*   src/src/ring_items/mod.rs      RingItem, raw time conversions         *)
(*   src/src/ring_items/triggers_item.rs  PhysicsEventCountItem            *)
(*   src/src/main.rs                dump_items                             *)
(*                                                                         *)
(* Condition objects live in reference counted containers.  An object is   *)
(* identified by a number 1..MaxObjs handed out in creation order; a weak  *)
(* reference is the number of the object it was downgraded from, and       *)
(* Weak::upgrade succeeds while the strong handle, the dictionary binding, *)
(* is left.                                                                *)
(***************************************************************************)
EXTENDS Integers, Sequences, FiniteSets, TLC

\* ------------------------------------------------------------- bounds
MaxObjs == 3
MaxDeps == 2
MaxEdges == 2
MemoEdges == 1
NNames  == 3
NParams == 1
MaxVal  == 0
NPNames == 2
MaxList == 2
MaxFill == 2
MaxSpVal == 1
NGates == 1
MaxPush == 3
ByteBits == 2
MaxPayload == 3
MaxSecs == 600
\* the number of writes to a file
MaxWrites == 3

Obj    == 1..MaxObjs
Names  == 1..NNames
Params == 1..NParams
Vals   == 0..MaxVal

\* Option<T>: None is the empty sequence, Some(x) the one element sequence.
None      == << >>
Some(x)   == << x >>
IsSome(o) == o # None
Unwrap(o) == o[1]
OptBool   == {None, Some(TRUE), Some(FALSE)}

\* FlatEvent, indexed by parameter id: Option<f64>.
FlatEvents == [Params -> {None} \cup {Some(v) : v \in Vals}]

Primitive == {"True", "False", "Cut"}
Compound  == {"Not", "And", "Or"}

VARIABLES
    kind,      \* kind[o]: "free" (never created), "dead" (dropped), or the struct
    deps,      \* deps[o]: Not.dependent / ConditionList.dependent_conditions (weak refs)
    cache,     \* cache[o]: Not.cache / ConditionList.cache
    cut,       \* cut[o]: <<parameter id, low, high>> of a Cut
    dict,      \* ConditionDictionary: name -> object, 0 when the name is unbound
    nobj,      \* number of objects created so far
    flat,      \* the FlatEvent handed to check / evaluate
    watch,     \* which observer is kept: "calls" (last), "memo" (first, direct),
               \* "new" or "spectra" (call)
    first,     \* a check that was made: first.obj the condition, first.val the value
               \* returned; forgotten (obj = 0) when invalidate_cache is called on
               \* first.obj (observer, not program state)
    direct,    \* a holder called evaluate on first.obj after that check (observer)
    seen,      \* seen[o]: value returned by the latest check or evaluate of o since
               \* its last invalidate_cache (observer, not program state)
    last,      \* the last check / evaluate call (observer), and whether it panicked
    pdict,     \* ParameterDictionary: parameter name -> parameter
    sp,        \* the Result of the last Summary::new / PGamma::new: the spectrum
    call,      \* the last call on the spectrum: the arguments of the constructor,
               \* what check_gate returned in handle_event (observer, not
               \* program state)
    nextid,    \* ParameterDictionary: the id the next parameter added gets
    event,     \* Event: the EventParameters pushed, <<id, value>>, in order
    sdict,     \* the spectrum dictionary: the spectra handed each event
    item,      \* the RingItem in hand
    file,      \* the bytes of the stream ring items are written to and read from
    got,       \* what the last write_item / read_item returned
    wrote,     \* the ring items written whole to the file, in order (observer)
    dump       \* dump_items: dump.pc is "idle" before it is called, "loop" in
               \* its loop, "done" or "panicked" after it; dump.turns counts
               \* the turns of the loop

vars == <<kind, deps, cache, cut, dict, nobj, flat, watch, first, direct, seen, last,
          pdict, sp, call, nextid, event, sdict, item, file, got, wrote, dump>>
\* the state of the spectra
spectra == <<pdict, sp, call>>
\* the parameter id counter, the event, the spectrum dictionary, the ring items
rest == <<nextid, event, sdict, item, file, got, wrote, dump>>

NoCut == <<0, 0, 0>>
\* last.op the operation, last.obj its receiver, last.ok FALSE when the call
\* panicked, last.res the value it returned, last.fresh whether the receiver
\* had no cached value when it was called, last.vis the conditions whose check
\* or evaluate ran during the call, last.ev[x] how many times evaluate of x was
\* entered during the call.  A rebinding of a name is recorded as op "rebind"
\* with obj the new condition and old the one the name was bound to.
Idle  == [op |-> "none", obj |-> 0, res |-> FALSE, ok |-> TRUE, fresh |-> FALSE,
          vis |-> {}, old |-> 0, ev |-> [x \in Obj |-> 0]]
NoFirst == [obj |-> 0, val |-> FALSE]

\* Strong count > 0: the dictionary owns the strong handle of a condition.
StrongIn(o, d) == \E n \in Names : d[n] = o
Alive(o) == StrongIn(o, dict)

\* Weak::upgrade on a weak reference to o
Upgrade(o) == Alive(o)

\* ------------------------------------------------------------ Condition
\* Condition::get_cached_value: the trait default (True, False, Cut) is None.
get_cached_value(o, c) ==
    IF kind[o] \in Compound THEN c[o] ELSE None

True_evaluate(e)  == TRUE
False_evaluate(e) == FALSE
\* Cut: the parameter is present and low <= v <= high
Cut_evaluate(o, e) ==
    LET p == cut[o][1] lo == cut[o][2] hi == cut[o][3]
    IN  IsSome(e[p]) /\ lo <= Unwrap(e[p]) /\ Unwrap(e[p]) <= hi

\* A call in progress: st.c the caches, st.t the calls made so far (in order),
\* st.ok FALSE once a RefCell borrow_mut() has panicked, st.v the value returned,
\* st.ret[x] the value the latest finished check / evaluate of x returned.
Ret(st, v)       == [st EXCEPT !.v = v]
Returned(st, o)  == IF st.ok THEN [st EXCEPT !.ret = [@ EXCEPT ![o] = Some(st.v)]] ELSE st
Panic(st)        == [st EXCEPT !.ok = FALSE]
Log(st, what, o) == [st EXCEPT !.t = Append(@, <<what, o>>)]
Store(st, o, v)  == [st EXCEPT !.c = [@ EXCEPT ![o] = Some(v)], !.v = v]

RECURSIVE check(_, _, _), evaluate(_, _, _), And_loop(_, _, _, _), Or_loop(_, _, _, _)

\* Not::evaluate taking a deleted dependent for a false one
Not_evaluate_DanglingTrue(o, b, st) ==
    LET d == deps[o][1]
    IN  IF Upgrade(d)
        THEN IF d \in b THEN Panic(st)
             ELSE LET r == check(d, b \cup {d}, st)
                  IN  IF r.ok THEN Store(r, o, ~r.v) ELSE r
        ELSE Store(st, o, TRUE)

\* Not::evaluate.  b is the set of objects whose RefCell is mutably borrowed.
Not_evaluate(o, b, st) ==
    LET d == deps[o][1]
    IN  IF Upgrade(d)
        THEN IF d \in b THEN Panic(st)
             ELSE LET r == check(d, b \cup {d}, st)
                  IN  IF r.ok THEN Store(r, o, ~r.v) ELSE r
        ELSE Store(st, o, FALSE)

\* And_loop deciding on its first dependent alone
And_loop_FirstOnly(o, i, b, st) ==
    IF i > Len(deps[o]) \/ i > 1 THEN Ret(st, TRUE)
    ELSE LET d == deps[o][i]
         IN  IF Upgrade(d)
             THEN IF d \in b THEN Panic(st)
                  ELSE check(d, b \cup {d}, st)
             ELSE Ret(st, FALSE)

\* And_loop going on after a dependent that is false or dangling
And_loop_NoStop(o, i, b, st) ==
    IF i > Len(deps[o]) THEN Ret(st, TRUE)
    ELSE LET d == deps[o][i]
         IN  IF Upgrade(d)
             THEN IF d \in b THEN Panic(st)
                  ELSE LET r == check(d, b \cup {d}, st)
                       IN  IF ~r.ok THEN r
                           ELSE LET q == And_loop(o, i + 1, b, r)
                                IN  IF q.ok THEN Ret(q, r.v /\ q.v) ELSE q
             ELSE LET q == And_loop(o, i + 1, b, st)
                  IN  IF q.ok THEN Ret(q, FALSE) ELSE q

\* And_loop skipping a dangling dependent as Or does
And_loop_SkipDangling(o, i, b, st) ==
    IF i > Len(deps[o]) THEN Ret(st, TRUE)
    ELSE LET d == deps[o][i]
         IN  IF Upgrade(d)
             THEN IF d \in b THEN Panic(st)
                  ELSE LET r == check(d, b \cup {d}, st)
                       IN  IF ~r.ok THEN r
                           ELSE IF ~r.v THEN Ret(r, FALSE)
                           ELSE And_loop(o, i + 1, b, r)
             ELSE And_loop(o, i + 1, b, st)

\* And_loop finding an exhausted list false
And_loop_EmptyFalse(o, i, b, st) ==
    IF i > Len(deps[o]) THEN Ret(st, FALSE)
    ELSE LET d == deps[o][i]
         IN  IF Upgrade(d)
             THEN IF d \in b THEN Panic(st)
                  ELSE LET r == check(d, b \cup {d}, st)
                       IN  IF ~r.ok THEN r
                           ELSE IF ~r.v THEN Ret(r, FALSE)
                           ELSE And_loop(o, i + 1, b, r)
             ELSE Ret(st, FALSE)

\* the for loop of And::evaluate from position i on; the result is in .v
And_loop(o, i, b, st) ==
    IF i > Len(deps[o]) THEN Ret(st, TRUE)
    ELSE LET d == deps[o][i]
         IN  IF Upgrade(d)
             THEN IF d \in b THEN Panic(st)
                  ELSE LET r == check(d, b \cup {d}, st)
                       IN  IF ~r.ok THEN r
                           ELSE IF ~r.v THEN Ret(r, FALSE)
                           ELSE And_loop(o, i + 1, b, r)
             ELSE Ret(st, FALSE)

\* And::evaluate caching true whatever it computed
And_evaluate_CacheTrue(o, b, st) ==
    IF IsSome(st.c[o]) THEN Ret(st, Unwrap(st.c[o]))
    ELSE LET r == And_loop(o, 1, b, st)
         IN  IF r.ok THEN Ret(Store(r, o, TRUE), r.v) ELSE r

And_evaluate(o, b, st) ==
    IF IsSome(st.c[o]) THEN Ret(st, Unwrap(st.c[o]))
    ELSE LET r == And_loop(o, 1, b, st)
         IN  IF r.ok THEN Store(r, o, r.v) ELSE r

\* Or_loop going on after a dependent that is true
Or_loop_NoStop(o, i, b, st) ==
    IF i > Len(deps[o]) THEN Ret(st, FALSE)
    ELSE LET d == deps[o][i]
         IN  IF Upgrade(d)
             THEN IF d \in b THEN Panic(st)
                  ELSE LET r == check(d, b \cup {d}, st)
                       IN  IF ~r.ok THEN r
                           ELSE LET q == Or_loop(o, i + 1, b, r)
                                IN  IF q.ok THEN Ret(q, r.v \/ q.v) ELSE q
             ELSE Or_loop(o, i + 1, b, st)

\* the for loop of Or::evaluate from position i on
Or_loop(o, i, b, st) ==
    IF i > Len(deps[o]) THEN Ret(st, FALSE)
    ELSE LET d == deps[o][i]
         IN  IF Upgrade(d)
             THEN IF d \in b THEN Panic(st)
                  ELSE LET r == check(d, b \cup {d}, st)
                       IN  IF ~r.ok THEN r
                           ELSE IF r.v THEN Ret(r, TRUE)
                           ELSE Or_loop(o, i + 1, b, r)
             ELSE Or_loop(o, i + 1, b, st)

Or_evaluate(o, b, st) ==
    IF IsSome(st.c[o]) THEN Ret(st, Unwrap(st.c[o]))
    ELSE LET r == Or_loop(o, 1, b, st)
         IN  IF r.ok THEN Store(r, o, r.v) ELSE r

\* dynamic dispatch of Condition::evaluate
evaluate(o, b, st) ==
    LET s == Log(st, "evaluate", o)
    IN  Returned(CASE kind[o] = "True"  -> Ret(s, True_evaluate(flat))
                   [] kind[o] = "False" -> Ret(s, False_evaluate(flat))
                   [] kind[o] = "Cut"   -> Ret(s, Cut_evaluate(o, flat))
                   [] kind[o] = "Not"   -> Not_evaluate(o, b, s)
                   [] kind[o] = "And"   -> And_evaluate(o, b, s)
                   [] kind[o] = "Or"    -> Or_evaluate(o, b, s), o)

\* check that never answers from the cache
check_NoCache(o, b, st) == evaluate(o, b, Log(st, "check", o))

\* Condition::check (trait default, used by every condition)
check(o, b, st) ==
    LET s == Log(st, "check", o)
    IN  IF IsSome(get_cached_value(o, s.c))
        THEN Returned(Ret(s, Unwrap(get_cached_value(o, s.c))), o)
        ELSE evaluate(o, b, s)

\* invalidate_cache that leaves the cached value in place
invalidate_cache_Keep(o, c) == c

\* invalidate_cache that also resets the caches of the dependents
invalidate_cache_Deep(o, c) ==
    [x \in DOMAIN c |->
        IF x = o \/ \E i \in 1..Len(deps[o]) : deps[o][i] = x THEN None ELSE c[x]]

\* Condition::invalidate_cache: the trait default does nothing.
invalidate_cache(o, c) ==
    IF kind[o] \in Compound THEN [c EXCEPT ![o] = None] ELSE c

Start(c) == [c |-> c, t |-> << >>, ok |-> TRUE, v |-> FALSE, ret |-> seen]

\* ------------------------------------------------------------ parameters
\* Parameter names; a parameter's id is its name's number.
PNames == 1..NPNames
NoParam == [known |-> FALSE, id |-> 0, low |-> None, high |-> None, bins |-> None]
\* the limits and bin hints a parameter may carry: all, none, or one of them
Metas ==
    {[low |-> Some(0), high |-> Some(2), bins |-> Some(1)],
     [low |-> Some(1), high |-> Some(3), bins |-> Some(2)],
     [low |-> None,    high |-> None,    bins |-> None],
     [low |-> Some(0), high |-> None,    bins |-> None],
     [low |-> None,    high |-> Some(3), bins |-> None],
     [low |-> None,    high |-> None,    bins |-> Some(2)]}
Parameter(n, m) ==
    [known |-> TRUE, id |-> n, low |-> m.low, high |-> m.high, bins |-> m.bins]
\* ParameterDictionary::lookup
lookup(name) == IF pdict[name].known THEN Some(pdict[name]) ELSE None
\* a parameter as add makes it: no limits, no bin hint
NoMeta == [low |-> None, high |-> None, bins |-> None]
\* ParameterDictionary::add that hands out the id of the name it replaces
ParameterDictionary_add_Replace(name) ==
    [ok |-> TRUE, pdict |-> [pdict EXCEPT ![name] = Parameter(nextid, NoMeta)],
     nextid |-> nextid + 1]
\* ParameterDictionary::add(name): DuplicateName when the name is registered,
\* else the parameter gets the running counter as its id
ParameterDictionary_add(name) ==
    IF pdict[name].known THEN [ok |-> FALSE, pdict |-> pdict, nextid |-> nextid]
    ELSE [ok |-> TRUE, pdict |-> [pdict EXCEPT ![name] = Parameter(nextid, NoMeta)],
          nextid |-> nextid + 1]

\* ---------------------------------------------------------------- events
RECURSIVE FlatEvent_set(_, _, _)
\* a FlatEvent that keeps the entries of the event before
FlatEvent_clear_Keep(f) == f
\* step 1 of FlatEvent::load_event: the prior entries are cleared
FlatEvent_clear(f) == [p \in DOMAIN f |-> None]
\* step 2, from position i of the event on: flat[id] = Some(v) for each
\* (id, v) in order
FlatEvent_set(f, ev, i) ==
    IF i > Len(ev) THEN f
    ELSE FlatEvent_set([f EXCEPT ![ev[i][1]] = Some(ev[i][2])], ev, i + 1)
\* FlatEvent::load_event(&event)
FlatEvent_load(f, ev) == FlatEvent_set(FlatEvent_clear(f), ev, 1)

\* -------------------------------------------------------------- spectra
NoErr       == [kind |-> "", name |-> 0, axis |-> ""]
\* "Parameter {} does not exist" / "Parameter {} is not defined"
Unknown(n)  == [kind |-> "unknown", name |-> n, axis |-> ""]
\* "None of the parameters can default the axis ..." / "X axis ... cannot be defaulted"
AxisUndefined(a) == [kind |-> "axis", name |-> 0, axis |-> a]

\* axis::Uniform::new(bins, low, high)
Uniform(n, lo, hi) == [bins |-> n, low |-> lo, high |-> hi]
NoAxis == Uniform(0, 0, 0)
\* the bin of v: 0 the underflow bin, bins + 1 the overflow bin
index(ax, v) ==
    IF v < ax.low THEN 0
    ELSE IF v >= ax.high THEN ax.bins + 1
    ELSE 1 + ((v - ax.low) * ax.bins) \div (ax.high - ax.low)
Bins(ax) == 0..(ax.bins + 1)
\* ndhistogram!(xaxis, yaxis; Sum): every bin 0.0
Hist2D(xa, ya) == [b \in Bins(xa) \X Bins(ya) |-> 0]
\* fill taking a count away
fill_Take(h, xa, ya, x, y) == [h EXCEPT ![<<index(xa, x), index(ya, y)>>] = @ - 1]
\* histogram.fill(&(x, y))
fill(h, xa, ya, x, y) == [h EXCEPT ![<<index(xa, x), index(ya, y)>>] = @ + 1]

\* SpectrumGate: no gate, or the name of a condition and a weak reference to it
NoGate == [name |-> 0, cond |-> 0]
NoSpectrum ==
    [ok |-> FALSE, err |-> NoErr, kind |-> "none", xp |-> << >>, yp |-> << >>,
     xaxis |-> NoAxis, yaxis |-> NoAxis, hist |-> << >>, gate |-> NoGate]
Err(e) == [NoSpectrum EXCEPT !.err = e]

\* Summary::min keeping its first argument when both are defined
Summary_min_First(v1, v2) ==
    IF v1 = None /\ v2 = None THEN None
    ELSE IF v1 = None \/ v2 = None
         THEN (IF IsSome(v1) THEN Some(Unwrap(v1)) ELSE Some(Unwrap(v2)))
         ELSE Some(Unwrap(v1))

\* Summary::min and Summary::max
Summary_min(v1, v2) ==
    IF v1 = None /\ v2 = None THEN None
    ELSE IF v1 = None \/ v2 = None
         THEN (IF IsSome(v1) THEN Some(Unwrap(v1)) ELSE Some(Unwrap(v2)))
         ELSE IF Unwrap(v1) < Unwrap(v2) THEN Some(Unwrap(v1)) ELSE Some(Unwrap(v2))
Summary_max(v1, v2) ==
    IF v1 = None /\ v2 = None THEN None
    ELSE IF v1 = None \/ v2 = None
         THEN (IF IsSome(v1) THEN Some(Unwrap(v1)) ELSE Some(Unwrap(v2)))
         ELSE IF Unwrap(v1) > Unwrap(v2) THEN Some(Unwrap(v1)) ELSE Some(Unwrap(v2))
\* optmin and optmax of the spectra module
optmin(v1, v2) ==
    IF v1 = None THEN v2 ELSE IF v2 = None THEN v1
    ELSE IF Unwrap(v1) < Unwrap(v2) THEN v1 ELSE v2
optmax(v1, v2) ==
    IF v1 = None THEN v2 ELSE IF v2 = None THEN v1
    ELSE IF Unwrap(v1) > Unwrap(v2) THEN v1 ELSE v2

\* what the parameter loops collect: the axis defaults, the ids, the error
NoDef == [low |-> None, high |-> None, bins |-> None, ids |-> << >>, err |-> NoErr]

RECURSIVE Summary_loop(_, _, _), make_axis_loop(_, _, _)
RECURSIVE Summary_increment_loop(_, _, _, _), PGamma_increment_loop(_, _, _, _, _)
\* Summary::new binding the position in the list for the id of the parameter
Summary_loop_ByPosition(params, i, a) ==
    IF i > Len(params) THEN a
    ELSE LET p == lookup(params[i])
         IN  IF IsSome(p)
             THEN Summary_loop(params, i + 1,
                      [a EXCEPT !.ids  = Append(@, i),
                                !.low  = Summary_min(@, Unwrap(p).low),
                                !.high = Summary_max(@, Unwrap(p).high),
                                !.bins = Summary_max(@, Unwrap(p).bins)])
             ELSE [a EXCEPT !.err = Unknown(params[i])]

\* the for loop of Summary::new from position i on
Summary_loop(params, i, a) ==
    IF i > Len(params) THEN a
    ELSE LET p == lookup(params[i])
         IN  IF IsSome(p)
             THEN Summary_loop(params, i + 1,
                      [a EXCEPT !.ids  = Append(@, Unwrap(p).id),
                                !.low  = Summary_min(@, Unwrap(p).low),
                                !.high = Summary_max(@, Unwrap(p).high),
                                !.bins = Summary_max(@, Unwrap(p).bins)])
             ELSE [a EXCEPT !.err = Unknown(params[i])]

\* the override left out: only the parameters define the coordinate
Override_Ignored(given, default) == default

\* an override, when given, replaces the default
Override(given, default) == IF IsSome(given) THEN given ELSE default

Summary_new(params, ylow, yhigh, bins) ==
    LET a     == Summary_loop(params, 1, NoDef)
        low   == Override(ylow, a.low)
        high  == Override(yhigh, a.high)
        nbins == Override(bins, a.bins)
    IN  IF a.err # NoErr THEN Err(a.err)
        ELSE IF low = None THEN Err(AxisUndefined("y-low"))
        ELSE IF high = None THEN Err(AxisUndefined("y-high"))
        ELSE IF nbins = None THEN Err(AxisUndefined("y-bins"))
        ELSE LET xa == Uniform(Len(a.ids), 0, Len(a.ids))
                 ya == Uniform(Unwrap(nbins), Unwrap(low), Unwrap(high))
             IN  [ok |-> TRUE, err |-> NoErr, kind |-> "Summary",
                  xp |-> a.ids, yp |-> << >>, xaxis |-> xa, yaxis |-> ya,
                  hist |-> Hist2D(xa, ya), gate |-> NoGate]

\* the for loop of PGamma::make_axis_def from position i on
make_axis_loop(params, i, a) ==
    IF i > Len(params) THEN a
    ELSE LET p == lookup(params[i])
         IN  IF IsSome(p)
             THEN make_axis_loop(params, i + 1,
                      [a EXCEPT !.low  = optmin(@, Unwrap(p).low),
                                !.high = optmax(@, Unwrap(p).high),
                                !.bins = optmax(@, Unwrap(p).bins),
                                !.ids  = Append(@, Unwrap(p).id)])
             ELSE [a EXCEPT !.err = Unknown(params[i])]

make_axis_def(params) == make_axis_loop(params, 1, NoDef)

PGamma_new(xparams, yparams, xmin, xmax, xbins, ymin, ymax, ybins) ==
    LET xdef   == make_axis_def(xparams)
        x_min  == Override(xmin, xdef.low)
        x_max  == Override(xmax, xdef.high)
        x_bins == Override(xbins, xdef.bins)
        ydef   == make_axis_def(yparams)
        y_min  == Override(ymin, ydef.low)
        y_max  == Override(ymax, ydef.high)
        y_bins == Override(ybins, ydef.bins)
    IN  IF xdef.err # NoErr THEN Err(xdef.err)
        ELSE IF x_min = None THEN Err(AxisUndefined("x-low"))
        ELSE IF x_max = None THEN Err(AxisUndefined("x-high"))
        ELSE IF x_bins = None THEN Err(AxisUndefined("x-bins"))
        ELSE IF ydef.err # NoErr THEN Err(ydef.err)
        ELSE IF y_min = None THEN Err(AxisUndefined("y-low"))
        ELSE IF y_max = None THEN Err(AxisUndefined("y-high"))
        ELSE IF y_bins = None THEN Err(AxisUndefined("y-bins"))
        ELSE LET xa == Uniform(Unwrap(x_bins), Unwrap(x_min), Unwrap(x_max))
                 ya == Uniform(Unwrap(y_bins), Unwrap(y_min), Unwrap(y_max))
             IN  [ok |-> TRUE, err |-> NoErr, kind |-> "PGamma",
                  xp |-> xdef.ids, yp |-> ydef.ids, xaxis |-> xa, yaxis |-> ya,
                  hist |-> Hist2D(xa, ya), gate |-> NoGate]

\* Summary::increment that takes the parameter id for the x coordinate
Summary_increment_loop_ById(s, e, i, h) ==
    IF i > Len(s.xp) THEN h
    ELSE LET id == s.xp[i]
         IN  Summary_increment_loop(s, e, i + 1,
                 IF IsSome(e[id])
                 THEN fill(h, s.xaxis, s.yaxis, id - 1, Unwrap(e[id]))
                 ELSE h)

\* Summary::increment that gives up at the first parameter that is absent
Summary_increment_loop_StopAbsent(s, e, i, h) ==
    IF i > Len(s.xp) THEN h
    ELSE LET id == s.xp[i]
         IN  IF IsSome(e[id])
             THEN Summary_increment_loop(s, e, i + 1,
                      fill(h, s.xaxis, s.yaxis, i - 1, Unwrap(e[id])))
             ELSE h

\* the for loop of Summary::increment from position i of param_ids on:
\* enumerate() counts from 0, so position i is x = i - 1
Summary_increment_loop(s, e, i, h) ==
    IF i > Len(s.xp) THEN h
    ELSE LET id == s.xp[i]
         IN  Summary_increment_loop(s, e, i + 1,
                 IF IsSome(e[id])
                 THEN fill(h, s.xaxis, s.yaxis, i - 1, Unwrap(e[id]))
                 ELSE h)

Summary_increment(s, e) == [s EXCEPT !.hist = Summary_increment_loop(s, e, 1, s.hist)]

\* PGamma::increment pairing each x parameter with the first y parameter only
PGamma_increment_loop_FirstY(s, e, i, j, h) ==
    IF i > Len(s.xp) THEN h
    ELSE IF j > Len(s.yp) \/ j > 1 THEN PGamma_increment_loop(s, e, i + 1, 1, h)
    ELSE LET x == e[s.xp[i]]
             y == e[s.yp[j]]
         IN  PGamma_increment_loop(s, e, i, j + 1,
                 IF IsSome(x) /\ IsSome(y)
                 THEN fill(h, s.xaxis, s.yaxis, Unwrap(x), Unwrap(y))
                 ELSE h)

\* the nested for loops of PGamma::increment from x position i, y position j on
PGamma_increment_loop(s, e, i, j, h) ==
    IF i > Len(s.xp) THEN h
    ELSE IF j > Len(s.yp) THEN PGamma_increment_loop(s, e, i + 1, 1, h)
    ELSE LET x == e[s.xp[i]]
             y == e[s.yp[j]]
         IN  PGamma_increment_loop(s, e, i, j + 1,
                 IF IsSome(x) /\ IsSome(y)
                 THEN fill(h, s.xaxis, s.yaxis, Unwrap(x), Unwrap(y))
                 ELSE h)

PGamma_increment(s, e) == [s EXCEPT !.hist = PGamma_increment_loop(s, e, 1, 1, s.hist)]

\* dynamic dispatch of Spectrum::increment
increment(s, e) ==
    IF s.kind = "Summary" THEN Summary_increment(s, e) ELSE PGamma_increment(s, e)

\* clear that leaves the underflow and overflow bins alone
Spectrum_clear_Inside(s) ==
    [s EXCEPT !.hist = [b \in DOMAIN @ |->
        IF b[1] \in {0, s.xaxis.bins + 1} \/ b[2] \in {0, s.yaxis.bins + 1} THEN @[b] ELSE 0]]

\* Summary::clear, PGamma::clear: every bin of the histogram becomes Sum::new()
Spectrum_clear(s) == [s EXCEPT !.hist = [b \in DOMAIN @ |-> 0]]

\* SpectrumGate::set_gate(name, dict): Err when the name is not bound
SpectrumGate_set_gate(g, name) ==
    IF dict[name] = 0 THEN [ok |-> FALSE, gate |-> g]
    ELSE [ok |-> TRUE, gate |-> [name |-> name, cond |-> dict[name]]]
\* SpectrumGate::ungate
SpectrumGate_ungate(g) == NoGate
\* SpectrumGate::check(e): a call of check on the gate's condition, or a value
\* of its own when there is no gate or the condition is gone
SpectrumGate_check(g, c) ==
    IF g = NoGate THEN Ret(Start(c), TRUE)
    ELSE IF Upgrade(g.cond) THEN check(g.cond, {g.cond}, Start(c))
    ELSE Ret(Start(c), FALSE)

\* check_gate that lets every event through
check_gate_Open(s, c) == Ret(SpectrumGate_check(s.gate, c), TRUE)

\* check_gate that lets the events through once the gate's condition is gone
check_gate_DanglingOpen(s, c) ==
    IF s.gate # NoGate /\ ~Upgrade(s.gate.cond) THEN Ret(Start(c), TRUE)
    ELSE SpectrumGate_check(s.gate, c)

\* Summary::check_gate, PGamma::check_gate
check_gate(s, c) == SpectrumGate_check(s.gate, c)

\* Spectrum::handle_event (trait default), the event being flat: .r the call
\* of check_gate, .sp the spectrum after it
handle_event(s, c) ==
    LET r == check_gate(s, c)
    IN  [r |-> r, sp |-> IF r.ok /\ r.v THEN increment(s, flat) ELSE s]

RECURSIVE SumOver(_, _)
SumOver(h, B) ==
    IF B = {} THEN 0
    ELSE LET b == CHOOSE x \in B : TRUE IN h[b] + SumOver(h, B \ {b})
\* the sum of all bins of a histogram
Total(h) == SumOver(h, DOMAIN h)

\* ------------------------------------------------------------- dispatch
\* step 2 of the dispatch: invalidate_cache on every condition of the
\* dictionary
invalidate_every(c) ==
    [o \in Obj |-> IF Alive(o) THEN invalidate_cache(o, c)[o] ELSE c[o]]

RECURSIVE dispatch_loop(_, _, _, _, _)
\* step 3 of the dispatch from position i of the visiting order on:
\* handle_event on each spectrum of the spectrum dictionary sd.  .passed[k] is
\* what check_gate of spectrum k returned, .ok FALSE when a call panicked.
dispatch_loop(sd, order, i, c, passed) ==
    IF i > Len(order) THEN [ok |-> TRUE, sd |-> sd, c |-> c, passed |-> passed]
    ELSE LET k == order[i]
             h == handle_event(sd[k], c)
         IN  IF ~h.r.ok THEN [ok |-> FALSE, sd |-> sd, c |-> h.r.c, passed |-> passed]
             ELSE dispatch_loop([sd EXCEPT ![k] = h.sp], order, i + 1, h.r.c,
                                [passed EXCEPT ![k] = Some(h.r.v)])

\* steps 2 and 3 of the dispatch of the event that is in flat
dispatch(sd, c, order) ==
    dispatch_loop(sd, order, 1, invalidate_every(c), [k \in DOMAIN sd |-> None])

\* ------------------------------------------------------------ ring items
\* The integers of the ring items keep their number of bytes, each byte
\* holding ByteBits bits: a u8 is one byte, a u32 four, a u64 eight.
u8  == 1
u32 == 4
u64 == 8
\* no ring item in hand
NoItem == [size |-> 0, type_id |-> 0, body_header_size |-> 0, payload |-> << >>]
\* an empty file, the position at its start
NoFile == [bytes |-> << >>, pos |-> 0]
ByteMax   == 2^ByteBits
\* the number of values of an integer of n bytes
Range(n)  == ByteMax^n

RECURSIVE to_ne_bytes(_, _), from_ne_bytes(_)
\* T::to_ne_bytes: the n bytes of v, the least significant first
to_ne_bytes(v, n) ==
    IF n = 0 THEN << >> ELSE <<v % ByteMax>> \o to_ne_bytes(v \div ByteMax, n - 1)
\* T::from_ne_bytes
from_ne_bytes(bs) ==
    IF bs = << >> THEN 0 ELSE Head(bs) + ByteMax * from_ne_bytes(Tail(bs))

\* RingItem::new(t)
RingItem_new(t) ==
    [size |-> 3 * u32, type_id |-> t, body_header_size |-> u32, payload |-> << >>]

\* add that counts one byte for whatever it appends
RingItem_add_CountOne(it, bs) ==
    [it EXCEPT !.payload = @ \o bs, !.size = (@ + 1) % Range(u32)]

\* RingItem::add(item: T), bs the size_of::<T>() bytes of the item
RingItem_add(it, bs) ==
    [it EXCEPT !.payload = @ \o bs, !.size = (@ + Len(bs)) % Range(u32)]

RECURSIVE add_byte_vec_loop(_, _, _)
\* the for loop of RingItem::add_byte_vec from position i of v on
add_byte_vec_loop(it, v, i) ==
    IF i > Len(v) THEN it
    ELSE add_byte_vec_loop(RingItem_add(it, to_ne_bytes(v[i], u8)), v, i + 1)
add_byte_vec(it, v) == add_byte_vec_loop(it, v, 1)

\* ring_items::body_header_size()
body_header_size == u64 + 2 * u32

\* new_with_body_header that leaves body_header_size as new made it
new_with_body_header_NoSize(t, stamp, source, barrier) ==
    RingItem_add(RingItem_add(RingItem_add(RingItem_new(t),
        to_ne_bytes(stamp, u64)), to_ne_bytes(source, u32)), to_ne_bytes(barrier, u32))

\* RingItem::new_with_body_header(t, stamp, source, barrier)
new_with_body_header(t, stamp, source, barrier) ==
    LET result == [RingItem_new(t) EXCEPT !.body_header_size = body_header_size + u32]
    IN  RingItem_add(RingItem_add(RingItem_add(result,
            to_ne_bytes(stamp, u64)), to_ne_bytes(source, u32)), to_ne_bytes(barrier, u32))

\* RingItem::has_body_header
has_body_header(it) == it.body_header_size > u32

\* payload.as_slice()[a..b]
Slice(bs, a, b) == SubSeq(bs, a + 1, b)

\* RingItem::get_bodyheader: None, or Some(BodyHeader); .ok FALSE when a
\* slice is out of range (panic)
get_bodyheader(it) ==
    IF has_body_header(it)
    THEN IF Len(it.payload) < 16 THEN [ok |-> FALSE, v |-> None]
         ELSE [ok |-> TRUE,
               v  |-> Some([timestamp    |-> from_ne_bytes(Slice(it.payload, 0, 8)),
                            source_id    |-> from_ne_bytes(Slice(it.payload, 8, 12)),
                            barrier_type |-> from_ne_bytes(Slice(it.payload, 12, 16))])]
    ELSE [ok |-> TRUE, v |-> None]

\* file.write(buf) on a file: the whole buffer is written at the file
\* position, over what was there, and the position moves behind it
write(f, buf) ==
    [bytes |-> SubSeq(f.bytes, 1, f.pos) \o buf
                   \o SubSeq(f.bytes, f.pos + Len(buf) + 1, Len(f.bytes)),
     pos   |-> f.pos + Len(buf)]

\* write_item that leaves the type out
write_item_NoType(it, f) ==
    LET bytes == to_ne_bytes(it.size, u32) \o to_ne_bytes(it.body_header_size, u32)
                     \o it.payload
    IN  [file |-> write(f, bytes), n |-> Len(bytes)]

\* RingItem::write_item(file) on a file; .n is the number of bytes written
write_item(it, f) ==
    LET bytes == to_ne_bytes(it.size, u32) \o to_ne_bytes(it.type_id, u32)
                     \o to_ne_bytes(it.body_header_size, u32) \o it.payload
    IN  [file |-> write(f, bytes), n |-> Len(bytes)]

\* read_exact that leaves the file position where it was
read_exact_Peek(f, n) ==
    IF f.pos + n <= Len(f.bytes)
    THEN [ok |-> TRUE, bytes |-> SubSeq(f.bytes, f.pos + 1, f.pos + n), file |-> f]
    ELSE [ok |-> FALSE, bytes |-> << >>, file |-> f]

\* file.read_exact(buf) for a buffer of n bytes at the file position: the
\* bytes, or Err when fewer are left
read_exact(f, n) ==
    IF f.pos + n <= Len(f.bytes)
    THEN [ok |-> TRUE, bytes |-> SubSeq(f.bytes, f.pos + 1, f.pos + n),
          file |-> [f EXCEPT !.pos = @ + n]]
    ELSE [ok |-> FALSE, bytes |-> << >>, file |-> [f EXCEPT !.pos = Len(f.bytes)]]

\* RingItem::read_long
read_long(f) ==
    LET r == read_exact(f, u32)
    IN  [ok |-> r.ok, v |-> from_ne_bytes(r.bytes), file |-> r.file]

\* read_item that looks at the size after the three header words are read
read_item_SizeLate(f) ==
    LET sz == read_long(f)
        ty == read_long(sz.file)
        bh == read_long(ty.file)
        body_size == sz.v - 3 * u32
        pl == read_exact(bh.file, body_size)
        Fail(e, g) == [ok |-> FALSE, err |-> e, item |-> NoItem, file |-> g]
    IN  IF ~sz.ok THEN Fail("HeaderReadFailed", sz.file)
        ELSE IF ~ty.ok THEN Fail("HeaderReadFailed", ty.file)
        ELSE IF ~bh.ok THEN Fail("HeaderReadFailed", bh.file)
        ELSE IF sz.v < 3 * u32 THEN Fail("InvalidHeader", bh.file)
        ELSE IF body_size > 0 /\ ~pl.ok THEN Fail("FileTooSmall", pl.file)
        ELSE [ok |-> TRUE, err |-> "",
              item |-> [size |-> sz.v, type_id |-> ty.v, body_header_size |-> bh.v,
                        payload |-> IF body_size > 0 THEN pl.bytes ELSE << >>],
              file |-> IF body_size > 0 THEN pl.file ELSE bh.file]

\* RingItem::read_item(file): Ok(item) or Err(RingItemError)
read_item(f) ==
    LET sz == read_long(f)
        ty == read_long(sz.file)
        bh == read_long(ty.file)
        body_size == sz.v - 3 * u32
        pl == read_exact(bh.file, body_size)
        Fail(e, g) == [ok |-> FALSE, err |-> e, item |-> NoItem, file |-> g]
    IN  IF ~sz.ok THEN Fail("HeaderReadFailed", sz.file)
        ELSE IF sz.v < 3 * u32 THEN Fail("InvalidHeader", sz.file)
        ELSE IF ~ty.ok THEN Fail("HeaderReadFailed", ty.file)
        ELSE IF ~bh.ok THEN Fail("HeaderReadFailed", bh.file)
        ELSE IF body_size > 0 /\ ~pl.ok THEN Fail("FileTooSmall", pl.file)
        ELSE [ok |-> TRUE, err |-> "",
              item |-> [size |-> sz.v, type_id |-> ty.v, body_header_size |-> bh.v,
                        payload |-> IF body_size > 0 THEN pl.bytes ELSE << >>],
              file |-> IF body_size > 0 THEN pl.file ELSE bh.file]

\* time::SystemTime at or after UNIX_EPOCH: whole seconds and nanoseconds
SystemTime(secs, nanos) == [secs |-> secs, nanos |-> nanos]
\* ring_items::raw_to_systime
raw_to_systime(raw) == SystemTime(raw, 0)
\* systime_to_raw without the mask
systime_to_raw_NoMask(stamp) == stamp.secs
\* ring_items::systime_to_raw: (secs & 0xffffffff) as u32
systime_to_raw(stamp) == stamp.secs % Range(u32)

\* ------------------------------------------- ring_items/triggers_item.rs
\* ring_items::PHYSICS_EVENT_COUNT
PHYSICS_EVENT_COUNT == 31
\* PhysicsEventCountItem::new(), called when the system clock reads now
PhysicsEventCountItem_new(now) ==
    [body_header |-> None, time_offset |-> 0, time_divisor |-> 1,
     absolute_time |-> now, original_sid |-> None, event_count |-> 0]
\* PhysicsEventCountItem::from_raw(&raw, version); ok is FALSE when a slice
\* of the payload is out of range, v is None or Some(item)
from_raw(raw, version) ==
    IF raw.type_id = PHYSICS_EVENT_COUNT
    THEN LET body_header == get_bodyheader(raw)
             offset      == IF body_header.v # None THEN body_header_size ELSE 0
             last_read   == IF version = "V11" THEN offset + 3 * u32 + u64
                            ELSE offset + 4 * u32 + u64
             payload     == raw.payload
         IN  IF ~body_header.ok \/ Len(payload) < last_read
             THEN [ok |-> FALSE, v |-> None]
             ELSE [ok |-> TRUE,
                   v  |-> Some(
                     [body_header   |-> body_header.v,
                      time_offset   |-> from_ne_bytes(Slice(payload, offset, offset + 4)),
                      time_divisor  |-> from_ne_bytes(Slice(payload, offset + 4, offset + 8)),
                      absolute_time |-> raw_to_systime(
                                  from_ne_bytes(Slice(payload, offset + 8, offset + 12))),
                      original_sid  |->
                          IF version = "V11" THEN None
                          ELSE Some(from_ne_bytes(Slice(payload, offset + 12, offset + 16))),
                      event_count   |->
                          IF version = "V11"
                          THEN from_ne_bytes(Slice(payload, offset + 12, offset + 20))
                          ELSE from_ne_bytes(Slice(payload, offset + 16, offset + 24))])]
    ELSE [ok |-> TRUE, v |-> None]
\* the first part of to_raw: the item with the three time fields added
to_raw_times(x) ==
    LET bh   == x.body_header
        base == IF bh # None
                THEN new_with_body_header(PHYSICS_EVENT_COUNT, bh[1].timestamp,
                                          bh[1].source_id, bh[1].barrier_type)
                ELSE RingItem_new(PHYSICS_EVENT_COUNT)
    IN  RingItem_add(
            RingItem_add(
                RingItem_add(base, to_ne_bytes(x.time_offset, u32)),
                to_ne_bytes(x.time_divisor, u32)),
            to_ne_bytes(systime_to_raw(x.absolute_time), u32))
\* to_raw that leaves the original source id out
to_raw_NoSid(x) ==
    RingItem_add(to_raw_times(x), to_ne_bytes(x.event_count, u64))
\* PhysicsEventCountItem::to_raw(&self)
to_raw(x) ==
    LET timed == to_raw_times(x)
        sided == IF x.original_sid # None
                 THEN RingItem_add(timed, to_ne_bytes(x.original_sid[1], u32))
                 ELSE timed
    IN  RingItem_add(sided, to_ne_bytes(x.event_count, u64))

\* ------------------------------------------------------------ operations
InitCond ==
    /\ kind  = [o \in Obj |-> "free"]
    /\ deps  = [o \in Obj |-> << >>]
    /\ cache = [o \in Obj |-> None]
    /\ cut   = [o \in Obj |-> NoCut]
    /\ dict  = [n \in Names |-> 0]
    /\ nobj  = 0
    /\ flat  = [p \in Params |-> None]
    /\ first = NoFirst
    /\ seen  = [o \in Obj |-> None]
    /\ direct = FALSE
    /\ last  = Idle

NoCall == [fn |-> "none"]
\* nothing returned
NoGot  == [fn |-> "none"]
\* dump_items is not running
NoDump == [pc |-> "idle", turns |-> 0]
\* no event, no spectrum dictionary, no ring item, an empty stream
Unused ==
    /\ event = << >>
    /\ sdict = << >>
    /\ item  = NoItem
    /\ file  = NoFile
    /\ got   = NoGot
    /\ wrote = << >>
    /\ dump  = NoDump
\* no parameter is registered and no spectrum made
NoSpectra ==
    /\ pdict = [n \in PNames |-> NoParam]
    /\ sp    = NoSpectrum
    /\ call  = NoCall
    /\ nextid = 1
    /\ Unused

Init == InitCond /\ watch = "calls" /\ NoSpectra

\* Dropping the last strong handle destroys the object: with dictionary d
\* every created object without a strong handle is gone.
Gone(o, d) == kind[o] \notin {"free", "dead"} /\ ~StrongIn(o, d)
Drop(d) ==
    /\ kind'  = [o \in Obj |-> IF Gone(o, d) THEN "dead" ELSE kind[o]]
    /\ deps'  = [o \in Obj |-> IF Gone(o, d) THEN << >> ELSE deps[o]]
    /\ cache' = [o \in Obj |-> IF Gone(o, d) THEN None ELSE cache[o]]
    /\ cut'   = [o \in Obj |-> IF Gone(o, d) THEN NoCut ELSE cut[o]]
    /\ first' = IF first.obj # 0 /\ Gone(first.obj, d) THEN NoFirst ELSE first
    /\ seen'  = [o \in Obj |-> IF Gone(o, d) THEN None ELSE seen[o]]
    /\ direct' = (direct /\ ~(first.obj # 0 /\ Gone(first.obj, d)))

\* Define with transparent replacement: the weak references to the condition
\* the name was bound to are redirected to the new one.
Define_Rewire(n, k, ds, ct) ==
    /\ nobj < MaxObjs
    /\ dict[n] # 0 \/ \A m \in 1..(n - 1) : dict[m] # 0
    /\ LET o == nobj + 1
           d == [dict EXCEPT ![n] = o]
           to(x) == IF x = dict[n] THEN o ELSE x
       IN  /\ dict'  = d
           /\ nobj'  = o
           /\ kind'  = [x \in Obj |-> IF x = o THEN k
                                      ELSE IF Gone(x, d) THEN "dead" ELSE kind[x]]
           /\ deps'  = [x \in Obj |-> IF x = o THEN ds
                                      ELSE IF Gone(x, d) THEN << >>
                                      ELSE [i \in 1..Len(deps[x]) |-> to(deps[x][i])]]
           /\ cache' = [x \in Obj |-> IF x = o \/ Gone(x, d) THEN None ELSE cache[x]]
           /\ cut'   = [x \in Obj |-> IF x = o THEN ct
                                      ELSE IF Gone(x, d) THEN NoCut ELSE cut[x]]
           /\ first' = IF first.obj # 0 /\ Gone(first.obj, d) THEN NoFirst ELSE first
           /\ seen'  = [x \in Obj |-> IF x = o \/ Gone(x, d) THEN None ELSE seen[x]]
           /\ direct' = (direct /\ ~(first.obj # 0 /\ Gone(first.obj, d)))
           /\ last' = IF watch = "calls" /\ dict[n] # 0
                       THEN [Idle EXCEPT !.op = "rebind", !.obj = o, !.old = dict[n]]
                       ELSE Idle
    /\ UNCHANGED <<flat, watch>>

\* ConditionDictionary insert(name, Rc::new(RefCell::new(<new condition>))):
\* the new object of kind k with dependents ds is bound to n; the previous
\* binding of n is returned to the caller and dropped.
\* Names are interchangeable: a new name is the first unbound one.
Define(n, k, ds, ct) ==
    /\ nobj < MaxObjs
    /\ dict[n] # 0 \/ \A m \in 1..(n - 1) : dict[m] # 0
    /\ LET o == nobj + 1
           d == [dict EXCEPT ![n] = o]
       IN  /\ dict'  = d
           /\ nobj'  = o
           /\ kind'  = [x \in Obj |-> IF x = o THEN k
                                      ELSE IF Gone(x, d) THEN "dead" ELSE kind[x]]
           /\ deps'  = [x \in Obj |-> IF x = o THEN ds
                                      ELSE IF Gone(x, d) THEN << >> ELSE deps[x]]
           /\ cache' = [x \in Obj |-> IF x = o \/ Gone(x, d) THEN None ELSE cache[x]]
           /\ cut'   = [x \in Obj |-> IF x = o THEN ct
                                      ELSE IF Gone(x, d) THEN NoCut ELSE cut[x]]
           /\ first' = IF first.obj # 0 /\ Gone(first.obj, d) THEN NoFirst ELSE first
           /\ seen'  = [x \in Obj |-> IF x = o \/ Gone(x, d) THEN None ELSE seen[x]]
           /\ direct' = (direct /\ ~(first.obj # 0 /\ Gone(first.obj, d)))
           /\ last' = IF watch = "calls" /\ dict[n] # 0
                       THEN [Idle EXCEPT !.op = "rebind", !.obj = o, !.old = dict[n]]
                       ELSE Idle
    /\ UNCHANGED <<flat, watch>>

NewTrue(n)  == Define(n, "True", << >>, NoCut)
NewFalse(n) == Define(n, "False", << >>, NoCut)
NewCut(n, p, lo, hi) == Define(n, "Cut", << >>, <<p, lo, hi>>)
\* Not::new(&dict[m]), then bound to n
NewNot(n, m) == dict[m] # 0 /\ Define(n, "Not", <<dict[m]>>, NoCut)
\* And::new() / Or::new(), then bound to n
NewAnd(n)   == Define(n, "And", << >>, NoCut)
NewOr(n)    == Define(n, "Or", << >>, NoCut)

\* ConditionDictionary remove(name)
Remove(n) ==
    /\ dict[n] # 0
    /\ dict' = [dict EXCEPT ![n] = 0]
    /\ Drop([dict EXCEPT ![n] = 0])
    /\ last' = Idle
    /\ UNCHANGED <<nobj, flat, watch>>

\* number of weak references in the dependency lists of the And and Or of S
\* (bounded by MaxEdges, by MemoEdges where the event and Cut are modelled)
RECURSIVE Edges(_)
Edges(S) ==
    IF S = {} THEN 0
    ELSE LET o == CHOOSE x \in S : TRUE
         IN  (IF kind[o] \in {"And", "Or"} THEN Len(deps[o]) ELSE 0) + Edges(S \ {o})

\* ConditionList::add_condition through And::add_condition / Or::add_condition
add_condition(o, n) ==
    /\ Alive(o) /\ kind[o] \in {"And", "Or"}
    /\ dict[n] # 0
    /\ Len(deps[o]) < MaxDeps
    /\ Edges(Obj) < (IF watch = "memo" THEN MemoEdges ELSE MaxEdges)
    /\ deps' = [deps EXCEPT ![o] = Append(@, dict[n])]
    /\ last' = Idle
    /\ UNCHANGED <<kind, cache, cut, dict, nobj, flat, watch, first, direct, seen>>

\* ConditionList::clear through And::clear / Or::clear
clear(o) ==
    /\ Alive(o) /\ kind[o] \in {"And", "Or"}
    /\ deps' = [deps EXCEPT ![o] = << >>]
    /\ last' = Idle
    /\ UNCHANGED <<kind, cache, cut, dict, nobj, flat, watch, first, direct, seen>>

Called(what, o, r) ==
    IF watch = "calls"
    THEN [op |-> what, obj |-> o, res |-> r.v, ok |-> r.ok,
          fresh |-> (get_cached_value(o, cache) = None),
          vis |-> {r.t[i][2] : i \in 1..Len(r.t)}, old |-> 0,
          ev |-> [x \in Obj |-> Cardinality({i \in 1..Len(r.t) : r.t[i] = <<"evaluate", x>>})]]
    ELSE [Idle EXCEPT !.ok = r.ok]

\* the observers first and seen follow the conditions that cache (Not, And, Or)
Caching(f) == [x \in Obj |-> IF kind[x] \in Compound THEN f[x] ELSE None]

\* container.borrow_mut().check(&flat) by a holder of a strong handle
Check(o) ==
    /\ Alive(o)
    /\ LET r == check(o, {o}, Start(cache))
       IN  /\ cache' = r.c
           /\ last'  = Called("check", o, r)
           /\ \/ first' = first
              \/ /\ watch = "memo" /\ r.ok /\ first.obj = 0 /\ kind[o] # "Cut"
                 /\ first' = [obj |-> o, val |-> r.v]
           /\ seen'  = Caching(r.ret)
    /\ UNCHANGED <<kind, deps, cut, dict, nobj, flat, watch, direct>>

\* container.borrow_mut().evaluate(&flat)
Evaluate(o) ==
    /\ Alive(o)
    /\ LET r == evaluate(o, {o}, Start(cache))
       IN  /\ cache' = r.c
           /\ last'  = Called("evaluate", o, r)
           /\ seen'  = Caching(r.ret)
    /\ direct' = (direct \/ first.obj = o)
    /\ UNCHANGED <<kind, deps, cut, dict, nobj, flat, watch, first>>

\* container.borrow_mut().invalidate_cache()
InvalidateCache(o) ==
    /\ Alive(o)
    /\ cache' = invalidate_cache(o, cache)
    /\ first' = IF first.obj = o THEN NoFirst ELSE first
    /\ seen'  = [seen EXCEPT ![o] = None]
    /\ direct' = (direct /\ first.obj # o)
    /\ last'  = Idle
    /\ UNCHANGED <<kind, deps, cut, dict, nobj, flat, watch>>

\* the engine at an event boundary: invalidate_cache on every dictionary entry
InvalidateAll ==
    /\ cache' = [o \in Obj |-> IF Alive(o) THEN invalidate_cache(o, cache)[o] ELSE cache[o]]
    /\ first' = NoFirst
    /\ seen'  = [o \in Obj |-> None]
    /\ direct' = FALSE
    /\ last'  = Idle
    /\ UNCHANGED <<kind, deps, cut, dict, nobj, flat, watch>>

\* check / evaluate is handed another event while the caches are kept
LoadEvent(e) ==
    /\ e # flat
    /\ flat' = e
    /\ last' = Idle
    /\ UNCHANGED <<kind, deps, cache, cut, dict, nobj, watch, first, direct, seen>>

\* The conditions of src/: True, False, Not, And, Or.
\* A panic (BorrowMutError) ends the program.
Step ==
    \/ \E n \in Names : NewTrue(n)
    \/ \E n \in Names : NewFalse(n)
    \/ \E n \in Names, m \in Names : NewNot(n, m)
    \/ \E n \in Names : NewAnd(n)
    \/ \E n \in Names : NewOr(n)
    \/ \E n \in Names : Remove(n)
    \/ \E o \in Obj, n \in Names : add_condition(o, n)
    \/ \E o \in Obj : clear(o)
    \/ \E o \in Obj : Check(o)
    \/ \E o \in Obj : Evaluate(o)
    \/ \E o \in Obj : InvalidateCache(o)
    \/ InvalidateAll

Next == last.ok /\ Step /\ UNCHANGED spectra /\ UNCHANGED rest

Spec == Init /\ [][Next]_vars

\* The same program with conditions that depend on the event (Cut), observed
\* through first and seen instead of last.
InitMemo == InitCond /\ watch = "memo" /\ NoSpectra

NextMemo ==
    /\ last.ok
    /\ \/ Step
       \/ \E n \in Names, p \in Params, lo \in Vals, hi \in Vals : NewCut(n, p, lo, hi)
       \/ \E e \in FlatEvents : LoadEvent(e)
    /\ UNCHANGED spectra
    /\ UNCHANGED rest

SpecMemo == InitMemo /\ [][NextMemo]_vars

\* The same program, each call of invalidate_cache observed through call:
\* call.obj the condition, call.had what it had cached.
InitFrame == InitCond /\ watch = "frame" /\ NoSpectra

InvalidateOne(o) ==
    /\ InvalidateCache(o)
    /\ call' = [fn |-> "invalidate_cache", obj |-> o, had |-> cache[o]]

NextFrame ==
    /\ last.ok
    /\ \/ /\ \/ \E n \in Names : NewTrue(n)
             \/ \E n \in Names : NewFalse(n)
             \/ \E n \in Names, m \in Names : NewNot(n, m)
             \/ \E n \in Names : NewAnd(n)
             \/ \E n \in Names : NewOr(n)
             \/ \E n \in Names : Remove(n)
             \/ \E o \in Obj, n \in Names : add_condition(o, n)
             \/ \E o \in Obj : clear(o)
             \/ \E o \in Obj : Check(o)
          /\ call' = [fn |-> "idle"]
       \/ \E o \in Obj : InvalidateOne(o)
    /\ UNCHANGED <<pdict, sp>>
    /\ UNCHANGED rest

SpecFrame == InitFrame /\ [][NextFrame]_vars

\* ------------------------------------------------- making the spectra
Lists   == UNION {[1..k -> PNames] : k \in 0..MaxList}
\* the values a caller overrides an axis coordinate with
OptLow  == {None, Some(1)}
OptHigh == {None, Some(2)}
OptBins == {None, Some(1)}

\* the conditions are left alone
condUnch == UNCHANGED <<kind, deps, cache, cut, dict, nobj, flat, watch, first, direct,
                        seen, last>>

\* Summary::new(name, params, pdict, ylow, yhigh, bins)
NewSummary(params, ylow, yhigh, bins) ==
    /\ sp'   = Summary_new(params, ylow, yhigh, bins)
    /\ call' = [fn |-> "Summary", xs |-> params, ys |-> << >>,
                xo |-> <<None, None, None>>, yo |-> <<ylow, yhigh, bins>>]
    /\ UNCHANGED pdict

\* PGamma::new(name, xparams, yparams, pdict, xmin, xmax, xbins, ymin, ymax, ybins)
NewPGamma(xparams, yparams, xmin, xmax, xbins, ymin, ymax, ybins) ==
    /\ sp'   = PGamma_new(xparams, yparams, xmin, xmax, xbins, ymin, ymax, ybins)
    /\ call' = [fn |-> "PGamma", xs |-> xparams, ys |-> yparams,
                xo |-> <<xmin, xmax, xbins>>, yo |-> <<ymin, ymax, ybins>>]
    /\ UNCHANGED pdict

\* Any registry of up to NPNames parameters, each with any of the Metas; the
\* ids are 1, 2, ... in the order the parameters were added, whatever it was.
InitNew ==
    /\ InitCond /\ watch = "new"
    /\ pdict \in [PNames -> {NoParam} \cup {Parameter(n, m) : n \in PNames, m \in Metas}]
    /\ LET K == {n \in PNames : pdict[n].known}
       IN  /\ {pdict[n].id : n \in K} = 1..Cardinality(K)
           /\ nextid = Cardinality(K) + 1
    /\ sp = NoSpectrum
    /\ call = NoCall
    /\ Unused

\* one constructor call on that registry
NextNew ==
    /\ call = NoCall
    /\ \/ \E ps \in Lists \ {<< >>}, l \in OptLow, h \in OptHigh, b \in OptBins :
             NewSummary(ps, l, h, b)
       \/ \E xs \in Lists, ys \in Lists, xl \in OptLow, xh \in OptHigh, xb \in OptBins,
             yl \in OptLow, yh \in OptHigh, yb \in OptBins :
             NewPGamma(xs, ys, xl, xh, xb, yl, yh, yb)
    /\ condUnch
    /\ UNCHANGED rest

SpecNew == InitNew /\ [][NextNew]_vars

\* the values of the parameters of an event, and the events
SpVals   == 0..MaxSpVal
SpEvents == [PNames -> {None} \cup {Some(v) : v \in SpVals}]

\* the names of the conditions the spectrum is gated on
GateNames == 1..NGates

\* what call holds after a step that is not a call on the spectrum
Quiet == [fn |-> "idle"]

\* ------------------------------------------- registering the parameters
\* pdict.add(name)
AddParameter(n) ==
    /\ LET r == ParameterDictionary_add(n)
       IN  /\ pdict'  = r.pdict
           /\ nextid' = r.nextid
           /\ call'   = [fn |-> "add", name |-> n, ok |-> r.ok]
    /\ UNCHANGED <<sp, event, sdict, item, file, got, wrote, dump>>

InitRegistry == InitCond /\ watch = "registry" /\ NoSpectra

\* Parameters are added, in any order and more than once, and spectra are
\* made on them with every axis coordinate given.
NextRegistry ==
    /\ \/ \E n \in PNames : AddParameter(n)
       \/ /\ \/ \E ps \in Lists \ {<< >>} : NewSummary(ps, Some(1), Some(2), Some(1))
             \/ \E xs \in Lists, ys \in Lists :
                   NewPGamma(xs, ys, Some(1), Some(2), Some(1), Some(1), Some(2), Some(1))
          /\ UNCHANGED rest
    /\ condUnch

SpecRegistry == InitRegistry /\ [][NextRegistry]_vars

\* --------------------------------------------------- loading the events
\* event.push(EventParameter::new(id, value))
Push(id, v) ==
    /\ Len(event) < MaxPush
    /\ event' = Append(event, <<id, v>>)
    /\ call'  = Quiet
    /\ UNCHANGED flat

\* Event::new(): the next event
NewEvent ==
    /\ event # << >>
    /\ event' = << >>
    /\ call'  = Quiet
    /\ UNCHANGED flat

\* flat.load_event(&event); call.before is the FlatEvent as it was
LoadEvent_ ==
    /\ flat' = FlatEvent_load(flat, event)
    /\ call' = [fn |-> "load_event", before |-> flat]
    /\ UNCHANGED event

InitEvents ==
    /\ kind  = [o \in Obj |-> "free"]
    /\ deps  = [o \in Obj |-> << >>]
    /\ cache = [o \in Obj |-> None]
    /\ cut   = [o \in Obj |-> NoCut]
    /\ dict  = [n \in Names |-> 0]
    /\ nobj  = 0
    /\ flat  = [p \in PNames |-> None]
    /\ first = NoFirst
    /\ seen  = [o \in Obj |-> None]
    /\ direct = FALSE
    /\ last  = Idle
    /\ watch = "events"
    /\ pdict = [n \in PNames |-> Parameter(n, NoMeta)]
    /\ sp    = NoSpectrum
    /\ call  = NoCall
    /\ nextid = NPNames + 1
    /\ Unused

\* Events are made of the ids of the registered parameters and loaded into
\* the one FlatEvent, one after the other.
NextEvents ==
    /\ \/ \E id \in PNames, v \in SpVals : Push(id, v)
       \/ NewEvent
       \/ LoadEvent_
    /\ UNCHANGED <<kind, deps, cache, cut, dict, nobj, watch, first, direct, seen, last,
                   pdict, sp, nextid, sdict, item, file, got, wrote, dump>>

SpecEvents == InitEvents /\ [][NextEvents]_vars

\* ------------------------------------------------- filling the spectra
\* FlatEvent::load(&event)
LoadFlat(e) ==
    /\ e # flat
    /\ flat' = e
    /\ call' = Quiet
    /\ UNCHANGED <<kind, deps, cache, cut, dict, nobj, watch, first, direct, seen, last,
                   pdict, sp>>

\* spectrum.gate(name, &dict)
Gate(n) ==
    /\ sp.ok
    /\ LET r == SpectrumGate_set_gate(sp.gate, n)
       IN  /\ sp'   = [sp EXCEPT !.gate = r.gate]
           /\ call' = Quiet
    /\ UNCHANGED pdict /\ condUnch

\* spectrum.ungate()
Ungate ==
    /\ sp.ok
    /\ sp'   = [sp EXCEPT !.gate = SpectrumGate_ungate(@)]
    /\ call' = Quiet
    /\ UNCHANGED pdict /\ condUnch

\* spectrum.handle_event(&flat); call.passed is what check_gate returned
HandleEvent ==
    /\ sp.ok
    /\ Total(sp.hist) < MaxFill
    /\ LET h == handle_event(sp, cache)
       IN  /\ sp'    = h.sp
           /\ cache' = h.r.c
           /\ seen'  = Caching(h.r.ret)
           /\ call'  = [fn |-> "handle_event", passed |-> h.r.v]
    /\ last' = Idle
    /\ UNCHANGED <<kind, deps, cut, dict, nobj, flat, watch, first, direct, pdict>>

\* spectrum.increment(&flat)
Increment ==
    /\ sp.ok
    /\ Total(sp.hist) < MaxFill
    /\ sp'   = increment(sp, flat)
    /\ call' = [fn |-> "increment"]
    /\ UNCHANGED pdict /\ condUnch

\* spectrum.clear(); call.had is the sum of the bins before the call
ClearSpectrum ==
    /\ sp.ok
    /\ sp'   = Spectrum_clear(sp)
    /\ call' = [fn |-> "clear", had |-> Total(sp.hist)]
    /\ UNCHANGED pdict /\ condUnch

\* Every parameter is registered with limits and a bin count; the event has
\* a slot for every parameter id.
InitSpectra ==
    /\ kind  = [o \in Obj |-> "free"]
    /\ deps  = [o \in Obj |-> << >>]
    /\ cache = [o \in Obj |-> None]
    /\ cut   = [o \in Obj |-> NoCut]
    /\ dict  = [n \in Names |-> 0]
    /\ nobj  = 0
    /\ flat  = [p \in PNames |-> None]
    /\ first = NoFirst
    /\ seen  = [o \in Obj |-> None]
    /\ direct = FALSE
    /\ last  = Idle
    /\ watch = "spectra"
    /\ pdict = [n \in PNames |->
                  Parameter(n, IF n % 2 = 1
                               THEN [low |-> Some(0), high |-> Some(2), bins |-> Some(2)]
                               ELSE [low |-> Some(1), high |-> Some(3), bins |-> Some(2)])]
    /\ sp    = NoSpectrum
    /\ call  = NoCall
    /\ nextid = NPNames + 1
    /\ Unused

\* One spectrum is made; conditions are made, rebound and removed, the
\* spectrum is gated and ungated, and it is handed the events.
NextSpectra ==
    /\ \/ /\ call = NoCall
          /\ \/ \E ps \in Lists \ {<< >>} : NewSummary(ps, None, None, None)
             \/ \E xs \in Lists \ {<< >>}, ys \in Lists \ {<< >>} :
                   NewPGamma(xs, ys, None, None, None, None, None, None)
          /\ condUnch
       \/ /\ \/ \E n \in GateNames : NewTrue(n)
             \/ \E n \in GateNames : NewFalse(n)
             \/ \E n \in GateNames : Remove(n)
          /\ call' = Quiet
          /\ UNCHANGED <<pdict, sp>>
       \/ \E e \in SpEvents : LoadFlat(e)
       \/ \E n \in GateNames : Gate(n)
       \/ Ungate
       \/ HandleEvent
       \/ Increment
       \/ ClearSpectrum
    /\ UNCHANGED rest

SpecSpectra == InitSpectra /\ [][NextSpectra]_vars

\* ------------------------------------------------------- the ring items
TypeIds  == {1, PHYSICS_EVENT_COUNT}
Stamps   == {0, Range(u32) + 1}
Sources  == {2}
Barriers == {0, 1}
Bytes    == {0, 1, ByteMax - 1}
Longs    == {1, Range(u32) - 1}
ByteVecs == {<<a>> : a \in {0, ByteMax - 1}} \cup {<<a, 1>> : a \in {0, ByteMax - 1}}
RawTimes == 0..(Range(u32) - 1)
Times    == {SystemTime(secs, nanos) : secs \in 0..MaxSecs, nanos \in {0, 1, 999999999}}
\* the clock readings of PhysicsEventCountItem::new()
NowTimes == {SystemTime(5, 1), SystemTime(Range(u32) + 5, 0)}
\* the ring versions
RingVersion == {"V11", "V12"}
\* the count items: new ones, and those from_raw builds out of raw items
CountItems ==
    {PhysicsEventCountItem_new(now) : now \in NowTimes} \cup
    {[body_header   |-> bh, time_offset |-> off, time_divisor |-> div,
      absolute_time |-> raw_to_systime(raw), original_sid |-> sid,
      event_count   |-> n] :
        bh  \in {None, Some([timestamp |-> Range(u32) + 1, source_id |-> 2,
                             barrier_type |-> 1])},
        off \in {0, Range(u32) - 1}, div \in {1, 2}, raw \in {0, 7},
        sid \in {None, Some(3)}, n \in {0, Range(u32) + 1}}

\* the bytes added behind the body header
Body(it) ==
    SubSeq(it.payload, (IF has_body_header(it) THEN body_header_size ELSE 0) + 1,
           Len(it.payload))

\* RingItem::new(t) and a fresh tempfile()
New(t) ==
    /\ item' = RingItem_new(t)
    /\ file' = NoFile
    /\ got'  = [fn |-> "new", type_id |-> t]

\* RingItem::new_with_body_header(t, stamp, source, barrier) and a fresh
\* tempfile()
NewWithBodyHeader(t, stamp, source, barrier) ==
    /\ item' = new_with_body_header(t, stamp, source, barrier)
    /\ file' = NoFile
    /\ got'  = [fn |-> "new_with_body_header", type_id |-> t, stamp |-> stamp,
                source |-> source, barrier |-> barrier]

\* item.add(v) for a v of type T, n = size_of::<T>()
Add(v, n) ==
    /\ item # NoItem /\ file = NoFile
    /\ Len(Body(item)) < MaxPayload
    /\ item' = RingItem_add(item, to_ne_bytes(v, n))
    /\ got'  = [fn |-> "add", size_of |-> n]
    /\ UNCHANGED file

\* item.add_byte_vec(&v)
AddByteVec(v) ==
    /\ item # NoItem /\ file = NoFile
    /\ Len(Body(item)) < MaxPayload
    /\ item' = add_byte_vec(item, v)
    /\ got'  = [fn |-> "add_byte_vec", size_of |-> Len(v)]
    /\ UNCHANGED file

\* item.write_item(&mut file)
WriteItem ==
    /\ item # NoItem /\ file = NoFile
    /\ LET r == write_item(item, file)
       IN  /\ file' = r.file
           /\ got'  = [fn |-> "write_item", n |-> r.n]
    /\ UNCHANGED item

\* file.rewind()
Rewind ==
    /\ file.pos # 0
    /\ file' = [file EXCEPT !.pos = 0]
    /\ got'  = [fn |-> "rewind"]
    /\ UNCHANGED item

\* RingItem::read_item(&mut file); got.from is the file position it read at
ReadItem ==
    /\ file # NoFile
    /\ LET r == read_item(file)
       IN  /\ file' = r.file
           /\ got'  = [fn |-> "read_item", from |-> file.pos, ok |-> r.ok,
                        err |-> r.err, item |-> r.item]
    /\ UNCHANGED item

\* raw_to_systime(raw)
RawToSystime(raw) ==
    /\ item = NoItem /\ got = NoGot
    /\ got' = [fn |-> "raw_to_systime", raw |-> raw, stamp |-> raw_to_systime(raw)]
    /\ UNCHANGED <<item, file>>

\* systime_to_raw(stamp)
SystimeToRaw(stamp) ==
    /\ item = NoItem /\ got = NoGot
    /\ got' = [fn |-> "systime_to_raw", stamp |-> stamp, raw |-> systime_to_raw(stamp)]
    /\ UNCHANGED <<item, file>>

\* item = self.to_raw() for a count item x
ToRaw(x) ==
    /\ item = NoItem /\ got = NoGot
    /\ item' = to_raw(x)
    /\ got'  = [fn |-> "to_raw", x |-> x]
    /\ UNCHANGED file

\* PhysicsEventCountItem::from_raw(&item, version); got.of is Some(x) when
\* the item was just made by x.to_raw()
FromRaw(version) ==
    /\ item # NoItem /\ file = NoFile
    /\ got.fn # "from_raw"
    /\ got' = [fn |-> "from_raw", version |-> version,
               of |-> IF got.fn = "to_raw" THEN Some(got.x) ELSE None,
               res |-> from_raw(item, version)]
    /\ UNCHANGED <<item, file>>

InitRing == InitCond /\ watch = "ring" /\ NoSpectra

\* A ring item is made, added to, written to a file and read back; raw times
\* are converted both ways.
NextRing ==
    /\ \/ \E t \in TypeIds : New(t)
       \/ \E t \in TypeIds, stamp \in Stamps, source \in Sources, barrier \in Barriers :
              NewWithBodyHeader(t, stamp, source, barrier)
       \/ \E b \in Bytes : Add(b, u8)
       \/ \E l \in Longs : Add(l, u32)
       \/ \E v \in ByteVecs : AddByteVec(v)
       \/ WriteItem
       \/ Rewind
       \/ ReadItem
       \/ got = NoGot /\ \E raw \in RawTimes : RawToSystime(raw)
       \/ got = NoGot /\ \E stamp \in Times : SystimeToRaw(stamp)
       \/ got = NoGot /\ \E x \in CountItems : ToRaw(x)
       \/ \E version \in RingVersion : FromRaw(version)
    /\ UNCHANGED <<nextid, event, sdict, wrote, dump>>
    /\ UNCHANGED spectra /\ condUnch

SpecRing == InitRing /\ [][NextRing]_vars

\* ------------------------------------------------------ the event file
\* the items written to the file
StreamItems ==
    {RingItem_new(1), RingItem_new(PHYSICS_EVENT_COUNT),
     RingItem_add(RingItem_new(1), to_ne_bytes(1, u8)),
     new_with_body_header(1, Range(u32) + 1, 2, 1),
     to_raw(PhysicsEventCountItem_new(SystemTime(5, 1)))}
\* the raw writes: header words that do and do not make an item, and a byte
RawWrites ==
    {to_ne_bytes(l, u32) : l \in {5, 3 * u32, 4 * u32, 5 * u32}} \cup {to_ne_bytes(1, u8)}
\* an entry of wrote is a ring item or the bytes of a raw write
IsRaw(e) == "raw" \in DOMAIN e

\* item.write_item(&mut file) at the end of the file
StreamWrite(it) ==
    /\ dump.pc = "idle"
    /\ Len(wrote) < MaxWrites /\ file.pos = Len(file.bytes)
    /\ LET r == write_item(it, file)
       IN  /\ file' = r.file
           /\ got'  = [fn |-> "write_item", n |-> r.n]
    /\ item'  = it
    /\ wrote' = Append(wrote, it)
    /\ UNCHANGED dump

\* file.write(&bytes) at the end of the file
WriteRaw(bytes) ==
    /\ dump.pc = "idle"
    /\ Len(wrote) < MaxWrites /\ file.pos = Len(file.bytes)
    /\ file'  = write(file, bytes)
    /\ got'   = [fn |-> "write", n |-> Len(bytes)]
    /\ wrote' = Append(wrote, [raw |-> bytes])
    /\ UNCHANGED <<item, dump>>

\* main: the file is opened and dump_items(&mut f) is entered
DumpItems ==
    /\ dump.pc = "idle" /\ wrote # << >>
    /\ file' = [file EXCEPT !.pos = 0]
    /\ dump' = [pc |-> "loop", turns |-> 0]
    /\ got'  = [fn |-> "dump_items"]
    /\ UNCHANGED <<item, wrote>>

\* one turn of the loop of dump_items: read_item, then either the item is
\* shown (PhysicsEventCountItem::from_raw may panic, which ends the program)
\* or "done" is printed and the loop is left
DumpLoop ==
    /\ dump.pc = "loop"
    /\ LET r == read_item(file)
       IN  /\ file' = r.file
           /\ got'  = [fn |-> "read_item", from |-> file.pos, ok |-> r.ok,
                        err |-> r.err, item |-> r.item]
           /\ dump' = [pc    |-> IF ~r.ok THEN "done"
                                 ELSE IF from_raw(r.item, "V11").ok THEN "loop"
                                 ELSE "panicked",
                       turns |-> dump.turns + 1]
    /\ UNCHANGED <<item, wrote>>

InitStream == InitCond /\ watch = "stream" /\ NoSpectra

NextStream ==
    /\ \/ \E it \in StreamItems : StreamWrite(it)
       \/ \E bytes \in RawWrites : WriteRaw(bytes)
       \/ dump.pc = "idle" /\ Rewind /\ UNCHANGED <<wrote, dump>>
       \/ dump.pc = "idle" /\ ReadItem /\ UNCHANGED <<wrote, dump>>
       \/ DumpItems
       \/ DumpLoop
    /\ UNCHANGED <<nextid, event, sdict>>
    /\ UNCHANGED spectra /\ condUnch

SpecStream == InitStream /\ [][NextStream]_vars
\* a turn of the loop of dump_items, whatever its read_item returns
Turn ==
    /\ dump.pc = "loop"
    /\ dump' \in {[pc |-> pc, turns |-> dump.turns + 1] : pc \in {"loop", "done", "panicked"}}
\* dump_items runs on: its loop is not suspended for ever. In the loop the
\* steps that change dump are those of DumpLoop, which is enabled whenever
\* dump.pc = "loop"
SpecStreamFair == SpecStream /\ WF_dump(Turn)

\* ------------------------------------------------------ the dispatch
\* the dependents a compound condition is given
DepLists == {<< >>} \cup {<<a>> : a \in 1..3} \cup {<<a, b>> : a \in 1..3, b \in 1..3}
\* the conditions the two spectra are gated on: the cut or a compound
DispatchGates == 1..3
\* the orders the two spectra are visited in
Orders == {<<1, 2>>, <<2, 1>>}
\* the events: parameter 2 is always there, parameter 1 decides the cut
DispatchEvents == {<<<<2, 1>>>>} \cup {<<<<1, v>>, <<2, 1>>>> : v \in SpVals}

\* a Summary spectrum on parameter 2, gated on the condition named g
Gated(g) ==
    [Summary_new(<<2>>, None, None, None) EXCEPT
        !.gate = SpectrumGate_set_gate(NoGate, g).gate]

\* The engine's dispatch of one event runs in two steps, and nothing else
\* runs between them.  First the event is flattened.
Flatten(ev) ==
    /\ IF call = NoCall THEN TRUE ELSE call.fn = "dispatch" /\ call.ok
    /\ \A k \in DOMAIN sdict : Total(sdict[k].hist) < MaxFill
    /\ flat' = FlatEvent_load(flat, ev)
    /\ call' = [fn |-> "flatten"]
    /\ UNCHANGED <<cache, sdict>>

\* Then the cache of every condition of the dictionary is invalidated and
\* every spectrum is handed the flattened event, in the given order.
Dispatch(order) ==
    /\ call.fn = "flatten"
    /\ LET r == dispatch(sdict, cache, order)
       IN  /\ sdict' = r.sd
           /\ cache' = r.c
           /\ call'  = [fn |-> "dispatch", ok |-> r.ok, passed |-> r.passed,
                        order |-> order]
    /\ UNCHANGED flat

\* A cut on parameter 1 and two compound conditions are in the dictionary,
\* two spectra on parameter 2 are gated on the compound conditions.
InitDispatch ==
    /\ \E k2 \in Compound, k3 \in Compound, d2 \in DepLists, d3 \in DepLists :
          /\ k2 = "Not" => d2 = <<1>>
          /\ k3 = "Not" => d3 \in {<<1>>, <<2>>}
          /\ kind = [o \in Obj |-> CASE o = 1 -> "Cut" [] o = 2 -> k2 [] o = 3 -> k3
                                     [] OTHER -> "free"]
          /\ deps = [o \in Obj |-> CASE o = 2 -> d2 [] o = 3 -> d3 [] OTHER -> << >>]
    /\ cache = [o \in Obj |-> None]
    /\ cut   = [o \in Obj |-> IF o = 1 THEN <<1, 1, 1>> ELSE NoCut]
    /\ dict  = [n \in Names |-> IF n <= 3 THEN n ELSE 0]
    /\ nobj  = 3
    /\ flat  = [p \in PNames |-> None]
    /\ first = NoFirst
    /\ seen  = [o \in Obj |-> None]
    /\ direct = FALSE
    /\ last  = Idle
    /\ watch = "dispatch"
    /\ pdict = [n \in PNames |->
                  Parameter(n, IF n % 2 = 1
                               THEN [low |-> Some(0), high |-> Some(2), bins |-> Some(2)]
                               ELSE [low |-> Some(1), high |-> Some(3), bins |-> Some(2)])]
    /\ sp    = NoSpectrum
    /\ call  = NoCall
    /\ nextid = NPNames + 1
    /\ event = << >>
    /\ \E g1 \in DispatchGates, g2 \in DispatchGates : sdict = <<Gated(g1), Gated(g2)>>
    /\ item  = NoItem
    /\ file  = NoFile
    /\ got   = NoGot
    /\ wrote = << >>
    /\ dump  = NoDump

NextDispatch ==
    /\ \/ \E ev \in DispatchEvents : Flatten(ev)
       \/ \E order \in Orders : Dispatch(order)
    /\ UNCHANGED <<kind, deps, cut, dict, nobj, watch, first, direct, seen, last, pdict,
                   sp, nextid, event, item, file, got, wrote, dump>>

SpecDispatch == InitDispatch /\ [][NextDispatch]_vars

\* ---------------------------------------------------------------- claims
\* What check(d) returns when a holder calls it in the current state.
Val(d) == check(d, {d}, Start(cache))

Dependents(o)   == {deps[o][i] : i \in 1..Len(deps[o])}
LiveDeps(o)     == {d \in Dependents(o) : Alive(d)}
\* every live dependent's check returns a value (no borrow panic)
DepsReturn(o)   == \A d \in LiveDeps(o) : Val(d).ok
\* the last operation was a call of what on a live condition that returned
Returned_(what) == last.op = what /\ last.ok /\ Alive(last.obj)
\* ... and the receiver had no cached value when called
FreshCheck      == Returned_("check") /\ last.fresh

\* C1: for a Not, And or Or whose dependents are all alive, a check made while
\* the condition has no cached value returns the negation (Not), the
\* conjunction (And) or the disjunction (Or) of the dependents' check values.
C1_CompoundFormula ==
    LET o == last.obj
    IN  (FreshCheck /\ kind[o] \in Compound /\ LiveDeps(o) = Dependents(o) /\ DepsReturn(o))
        => /\ kind[o] = "Not" => last.res = ~Val(deps[o][1]).v
           /\ kind[o] = "And" => last.res = (\A d \in Dependents(o) : Val(d).v)
           /\ kind[o] = "Or"  => last.res = (\E d \in Dependents(o) : Val(d).v)

\* an And over a true and then a false dependent has just been checked
C1_Witness ==
    /\ FreshCheck /\ kind[last.obj] = "And" /\ Len(deps[last.obj]) = 2
    /\ LiveDeps(last.obj) = Dependents(last.obj)
    /\ Val(deps[last.obj][1]).v /\ ~Val(deps[last.obj][2]).v
    /\ ~last.res

\* ------------------------------------------------------- short circuit
Min(a, c) == IF a < c THEN a ELSE c
\* dependent i of o ends the loop of o's evaluate
Stops(o, i) ==
    LET d == deps[o][i]
    IN  IF kind[o] = "And" THEN ~Alive(d) \/ (Val(d).ok /\ ~Val(d).v)
        ELSE Alive(d) /\ Val(d).ok /\ Val(d).v
\* the position the loop stops at, Len + 1 when it runs to the end
StopPos(o) ==
    LET S == {i \in 1..Len(deps[o]) : Stops(o, i)}
    IN  IF S = {} THEN Len(deps[o]) + 1 ELSE CHOOSE i \in S : \A j \in S : i <= j
UpTo(o)  == {deps[o][i] : i \in 1..Min(StopPos(o), Len(deps[o]))}
After(o) == {deps[o][i] : i \in (StopPos(o) + 1)..Len(deps[o])}
\* the conditions reached from S through at most n dependency references
RECURSIVE Reach(_, _)
Reach(S, n) ==
    IF n = 0 THEN S ELSE Reach(S \cup UNION {Dependents(x) : x \in S}, n - 1)
\* the loop of an And / Or (k) ran in the last call, which returned
Ran(k) ==
    /\ last.op \in {"check", "evaluate"} /\ last.ok /\ last.fresh
    /\ Alive(last.obj) /\ kind[last.obj] = k

\* C2 as stated: when the loop of an And has run, every dependent up to the
\* first one that is false or dangling was checked, and no dependent after
\* that position (the And itself apart) was checked or evaluated or had its
\* cache changed.
C2_AndStopsLiteral ==
    [][Ran("And")' =>
         /\ \A d \in LiveDeps(last.obj)' \cap UpTo(last.obj)' : d \in last.vis'
         /\ \A d \in After(last.obj)' \ {last.obj'} :
                d \notin last.vis' /\ cache'[d] = cache[d]]_vars

\* C2, amended: ... no dependent after that position was checked or evaluated
\* or had its cache changed, unless it is also a dependent up to that position
\* or is reached through one.
C2_AndStops ==
    [][Ran("And")' =>
         /\ \A d \in LiveDeps(last.obj)' \cap UpTo(last.obj)' : d \in last.vis'
         /\ \A d \in After(last.obj)' \ (Reach(UpTo(last.obj), MaxObjs)' \cup {last.obj'}) :
                d \notin last.vis' /\ cache'[d] = cache[d]]_vars

\* And(F, T) was checked: false, and T was not touched
C2_Witness ==
    /\ Ran("And") /\ ~last.res /\ Len(deps[last.obj]) = 2
    /\ kind[deps[last.obj][1]] = "False" /\ kind[deps[last.obj][2]] = "True"
    /\ deps[last.obj][2] \notin last.vis

\* every dependent of o is dangling or checks false
AllFalse(o) == \A d \in Dependents(o) : ~Alive(d) \/ (Val(d).ok /\ ~Val(d).v)

\* C3 as stated: when the loop of an Or has run, every live dependent up to
\* the first live one that is true was checked, no dependent after that
\* position (the Or itself apart) was checked or evaluated or had its cache
\* changed, and the Or is false exactly when every dependent is dangling or
\* checks false.
C3_OrStopsLiteral ==
    [][Ran("Or")' =>
         /\ \A d \in LiveDeps(last.obj)' \cap UpTo(last.obj)' : d \in last.vis'
         /\ \A d \in After(last.obj)' \ {last.obj'} :
                d \notin last.vis' /\ cache'[d] = cache[d]
         /\ ~last.res' <=> AllFalse(last.obj)']_vars

\* C3, amended: ... no dependent after that position was checked or evaluated
\* or had its cache changed, unless it is also a dependent up to that position
\* or is reached through one ...
C3_OrStops ==
    [][Ran("Or")' =>
         /\ \A d \in LiveDeps(last.obj)' \cap UpTo(last.obj)' : d \in last.vis'
         /\ \A d \in After(last.obj)' \ (Reach(UpTo(last.obj), MaxObjs)' \cup {last.obj'}) :
                d \notin last.vis' /\ cache'[d] = cache[d]
         /\ ~last.res' <=> AllFalse(last.obj)']_vars

\* Or(T, F) was checked: true, and F was not touched
C3_Witness ==
    /\ Ran("Or") /\ last.res /\ Len(deps[last.obj]) = 2
    /\ kind[deps[last.obj][1]] = "True" /\ kind[deps[last.obj][2]] = "False"
    /\ deps[last.obj][2] \notin last.vis

\* ------------------------------------------------------ dangling weak
Dangling(o) == Dependents(o) \ LiveDeps(o)

\* C4: a check of an And or Or that has no cached value and references a
\* dropped condition returns false for the And, and for the Or the disjunction
\* of the checks of the dependents that are left.
C4_DanglingAndOr ==
    LET o == last.obj
    IN  (FreshCheck /\ kind[o] \in {"And", "Or"} /\ Dangling(o) # {} /\ DepsReturn(o))
        => /\ kind[o] = "And" => ~last.res
           /\ kind[o] = "Or"  => last.res = (\E d \in LiveDeps(o) : Val(d).v)

\* an And over a true condition and a dropped one was checked
C4_Witness ==
    /\ FreshCheck /\ Dangling(last.obj) # {}
    /\ \E d \in LiveDeps(last.obj) : kind[d] = "True"
    /\ kind[last.obj] = "And" /\ ~last.res

\* C5: evaluate of a Not (called directly, or by a check without cached
\* value) whose dependent has been deleted returns false and caches false;
\* while the dependent is alive it returns the negation of the dependent's
\* check and caches that.
C5_NotDangling ==
    LET o == last.obj
        d == deps[o][1]
    IN  (last.op \in {"check", "evaluate"} /\ last.ok /\ Alive(o) /\ kind[o] = "Not"
         /\ (last.op = "check" => last.fresh))
        => /\ ~Alive(d) => (~last.res /\ cache[o] = Some(FALSE))
           /\ Alive(d)  => (last.res = ~Val(d).v /\ cache[o] = Some(~Val(d).v))

\* a Not whose dependent was deleted has been checked
C5_Witness ==
    /\ FreshCheck /\ kind[last.obj] = "Not" /\ ~Alive(deps[last.obj][1])
    /\ ~last.res /\ cache[last.obj] = Some(FALSE)

\* ------------------------------------------------------------ rebinding
\* the conditions a check of x would call check or evaluate on
Consulted(x) == {Val(x).t[i][2] : i \in 1..Len(Val(x).t)}
\* the conditions, other than the one just bound, holding a reference to d
Holders(d) == {x \in Obj \ {last.obj} : Alive(x) /\ d \in Dependents(x)}

Redirected(x) ==
    LET v(d) == IF d = last.old THEN Val(last.obj).v ELSE Alive(d) /\ Val(d).v
    IN  CASE kind[x] = "Not" -> ~v(deps[x][1])
          [] kind[x] = "And" -> \A d \in Dependents(x) : v(d)
          [] kind[x] = "Or"  -> \E d \in Dependents(x) : v(d)

\* C7: after a name is rebound, a holder of the old condition that has no
\* cached value evaluates the new condition.
C7_HoldersSeeNew ==
    last.op = "rebind" =>
        \A x \in Holders(last.old) :
            (cache[x] = None /\ Val(x).ok /\ Val(last.obj).ok) => Val(x).v = Redirected(x)

\* ---------------------------------------------------------------- cache
\* C8 as stated: while invalidate_cache has not been called on a condition
\* since a check of it, a check of it returns what that check returned.
C8_CacheConsistentLiteral ==
    (first.obj # 0 /\ Val(first.obj).ok) => Val(first.obj).v = first.val

\* C8, amended: ... unless evaluate has been called on it directly since that
\* check.
C8_CacheConsistent ==
    (first.obj # 0 /\ Val(first.obj).ok /\ ~direct) => Val(first.obj).v = first.val

\* a Not over a Cut was checked, then the event changed so that the Cut's
\* value changed: the Not still checks as before
C8_Witness ==
    /\ first.obj # 0 /\ kind[first.obj] = "Not" /\ Alive(deps[first.obj][1])
    /\ kind[deps[first.obj][1]] = "Cut"
    /\ first.val = Cut_evaluate(deps[first.obj][1], flat)
    /\ Val(first.obj).v = first.val

Formula(o) ==
    CASE kind[o] = "Not" -> Alive(deps[o][1]) /\ ~Val(deps[o][1]).v
      [] kind[o] = "And" -> \A d \in Dependents(o) : Alive(d) /\ Val(d).v
      [] kind[o] = "Or"  -> \E d \in Dependents(o) : Alive(d) /\ Val(d).v

\* C10: evaluate on a Not, And or Or returns the value of its formula over
\* the dependents and leaves that value in the cache, whether or not a value
\* was cached before.
C10_EvaluateFresh ==
    LET o == last.obj
    IN  (Returned_("evaluate") /\ kind[o] \in Compound /\ DepsReturn(o))
        => last.res = Formula(o) /\ cache[o] = Some(Formula(o))

\* ---------------------------------------------------------------- clear
\* C11: clear() on an And or Or with dependents leaves the list empty and the
\* cache None.
C11_ClearInvalidates ==
    [][\A o \in Obj :
         (kind[o] \in {"And", "Or"} /\ kind'[o] = kind[o] /\ deps[o] # << >> /\ deps'[o] = << >>)
             => cache'[o] = None]_vars

\* ------------------------------------------------- evaluated at most once
\* o is not the receiver of a direct evaluate (a holder may call that again)
ByCheck(o) == last.op = "check" \/ (last.op = "evaluate" /\ o # last.obj)

\* C12 as stated: during a call of check no condition's evaluate is entered
\* twice, and none is entered for a condition that has returned a value since
\* its last invalidation.
C12_EvaluatedOnceLiteral ==
    [][last.ok' =>
         \A o \in Obj : ByCheck(o)' =>
             /\ last.ev'[o] <= 1
             /\ seen[o] # None => last.ev'[o] = 0]_vars

\* C12, amended: ... of a Not, And or Or ...; True and False keep no value and
\* their evaluate is entered at every check.
C12_EvaluatedOnce ==
    [][last.ok' =>
         \A o \in Obj : (ByCheck(o)' /\ kind[o] \in Compound) =>
             /\ last.ev'[o] <= 1
             /\ seen[o] # None => last.ev'[o] = 0]_vars

\* an And was checked whose dependent, a Not, And or Or, had been evaluated
\* before: the dependent was checked and not evaluated again
C12_Witness ==
    /\ FreshCheck /\ kind[last.obj] = "And"
    /\ \E d \in LiveDeps(last.obj) :
          kind[d] \in Compound /\ d \in last.vis /\ last.ev[d] = 0

\* ------------------------------------------------------ gated spectra
\* the spectrum has a gate and the gate's condition is there / is gone
GateAlive == sp.gate # NoGate /\ Alive(sp.gate.cond)
GateGone  == sp.gate # NoGate /\ ~Alive(sp.gate.cond)
\* the spectrum without its gate
Ungated(s) == [s EXCEPT !.gate = NoGate]
\* the positions of a list of parameter ids whose parameter is in the event
Present(ids) == {i \in 1..Len(ids) : IsSome(flat[ids[i]])}
\* the step is a call of handle_event
Handled == call'.fn = "handle_event"
\* the step is a call of increment, by handle_event or by its holder
Incremented == call'.fn = "increment" \/ (call'.fn = "handle_event" /\ call'.passed)

\* C13: handle_event on a spectrum whose gate's condition checks false leaves
\* every bin as it was (all zero on a fresh spectrum); when the condition
\* checks true the bins are those the same spectrum without the gate gets.
C13_GateDecides ==
    [][(Handled /\ GateAlive) =>
          IF Val(sp.gate.cond).v
          THEN sp'.hist = handle_event(Ungated(sp), cache).sp.hist
          ELSE /\ sp'.hist = sp.hist
               /\ Total(sp.hist) = 0 => \A b \in DOMAIN sp'.hist : sp'.hist[b] = 0]_vars

\* a spectrum gated on a True condition was handed an event and has counts
C13_Witness ==
    /\ call.fn = "handle_event" /\ call.passed
    /\ GateAlive /\ kind[sp.gate.cond] = "True"
    /\ Total(sp.hist) > 0

\* C14 as stated: handle_event on an ungated spectrum changes a bin when a
\* bound parameter is in the event.
C14_UngatedIncrementsLiteral ==
    [][(Handled /\ sp.gate = NoGate /\ (Present(sp.xp) # {} \/ Present(sp.yp) # {}))
          => sp'.hist # sp.hist]_vars

\* C14, amended: ... a Summary changes a bin exactly when one of its
\* parameters is in the event, a PGamma exactly when one of its x parameters
\* and one of its y parameters are.
C14_UngatedIncrements ==
    [][(Handled /\ sp.gate = NoGate) =>
          (sp'.hist # sp.hist <=>
              IF sp.kind = "Summary" THEN Present(sp.xp) # {}
              ELSE Present(sp.xp) # {} /\ Present(sp.yp) # {})]_vars

\* an ungated Summary over two parameters was handed an event with one of
\* them and has a count
C14_Witness ==
    /\ call.fn = "handle_event" /\ sp.gate = NoGate /\ sp.kind = "Summary"
    /\ Len(sp.xp) = 2 /\ Cardinality(Present(sp.xp)) = 1
    /\ Total(sp.hist) > 0

\* C15: check_gate returns true without a gate, what the condition's check
\* returns while the gate's condition is there, and false once it is gone;
\* then handle_event changes no bin, and the condition stays gone for as long
\* as the spectrum keeps that gate.
C15_GateCheck ==
    [][/\ Handled =>
            /\ call'.passed = (IF sp.gate = NoGate THEN TRUE
                               ELSE IF Alive(sp.gate.cond) THEN Val(sp.gate.cond).v
                               ELSE FALSE)
            /\ GateGone => sp'.hist = sp.hist
       /\ (GateGone /\ sp'.gate = sp.gate) => GateGone']_vars

\* a spectrum with counts, gated on a condition that is gone, was handed an
\* event with one of its parameters and the gate did not pass it
C15_Witness ==
    /\ call.fn = "handle_event" /\ ~call.passed
    /\ GateGone /\ Present(sp.xp) # {}
    /\ Total(sp.hist) > 0

\* ------------------------------------------------------------- increments
\* C16: increment of a PGamma adds to each bin the number of pairs of an x
\* and a y parameter in the event whose values fall in it: the sum of the
\* bins grows by (x parameters in the event) * (y parameters in the event).
C16_PGammaIncrement ==
    [][(Incremented /\ sp.kind = "PGamma") =>
          /\ DOMAIN sp'.hist = DOMAIN sp.hist
          /\ \A b \in DOMAIN sp.hist :
                sp'.hist[b] = sp.hist[b] + Cardinality(
                    {p \in Present(sp.xp) \X Present(sp.yp) :
                        b = <<index(sp.xaxis, Unwrap(flat[sp.xp[p[1]]])),
                              index(sp.yaxis, Unwrap(flat[sp.yp[p[2]]]))>>})
          /\ Total(sp'.hist) - Total(sp.hist)
                = Cardinality(Present(sp.xp)) * Cardinality(Present(sp.yp))]_vars

\* a fresh PGamma over two x and two y parameters was incremented with an
\* event that has them all: four counts
C16_Witness ==
    /\ call.fn = "increment" /\ sp.kind = "PGamma"
    /\ Len(sp.xp) = 2 /\ Len(sp.yp) = 2
    /\ Cardinality(Present(sp.xp)) = 2 /\ Cardinality(Present(sp.yp)) = 2
    /\ Total(sp.hist) = 4

\* C17: increment of a Summary adds one to the bin (i - 1, value) for each
\* position i of the parameter list whose parameter is in the event, i - 1
\* being the position counted from 0, and changes no other bin.
C17_SummaryIncrement ==
    [][(Incremented /\ sp.kind = "Summary") =>
          /\ DOMAIN sp'.hist = DOMAIN sp.hist
          /\ \A b \in DOMAIN sp.hist :
                sp'.hist[b] = sp.hist[b] + Cardinality(
                    {i \in Present(sp.xp) :
                        b = <<index(sp.xaxis, i - 1),
                              index(sp.yaxis, Unwrap(flat[sp.xp[i]]))>>})]_vars

\* a fresh Summary over the parameters 2, 1 in that order was incremented
\* with an event that has parameter 2 only: the count is in the first column
C17_Witness ==
    /\ call.fn = "increment" /\ sp.kind = "Summary"
    /\ sp.xp = <<2, 1>> /\ Present(sp.xp) = {1}
    /\ Total(sp.hist) = 1
    /\ sp.hist[<<1, index(sp.yaxis, Unwrap(flat[2]))>>] = 1

\* ------------------------------------------------------- clear, counts
\* C21: clear() leaves every bin of the spectrum, the underflow and overflow
\* bins included, at zero, so that the bins sum to 0, and leaves the gate,
\* the bound parameters and the axes as they were.
C21_ClearZeroes ==
    [][call'.fn = "clear" =>
          /\ DOMAIN sp'.hist = Bins(sp.xaxis) \X Bins(sp.yaxis)
          /\ \A b \in DOMAIN sp'.hist : sp'.hist[b] = 0
          /\ Total(sp'.hist) = 0
          /\ sp'.gate = sp.gate /\ sp'.kind = sp.kind
          /\ sp'.xp = sp.xp /\ sp'.yp = sp.yp
          /\ sp'.xaxis = sp.xaxis /\ sp'.yaxis = sp.yaxis]_vars

\* a gated spectrum that had counts was cleared
C21_Witness ==
    /\ call.fn = "clear" /\ call.had > 0
    /\ sp.gate # NoGate /\ Total(sp.hist) = 0

\* C22: no bin of the spectrum is lowered by a step that is not a clear():
\* not by handle_event, increment, gate or ungate.
C22_BinsGrow ==
    [][(sp.ok /\ call'.fn # "clear") =>
          \A b \in DOMAIN sp.hist : sp'.hist[b] >= sp.hist[b]]_vars

\* a gated spectrum was handed an event when it had a count, and has two
C22_Witness ==
    /\ call.fn = "handle_event" /\ call.passed
    /\ sp.gate # NoGate /\ \E b \in DOMAIN sp.hist : sp.hist[b] >= 2

\* ----------------------------------------------------------- axis defaults
\* every name of the list is registered
Known(xs) == \A i \in 1..Len(xs) : pdict[xs[i]].known
\* the values the parameters of the list define for low, high or bins
Defined(xs, f) ==
    {Unwrap(pdict[xs[i]][f]) : i \in {j \in 1..Len(xs) : IsSome(pdict[xs[j]][f])}}
Least(S)    == CHOOSE x \in S : \A y \in S : x <= y
Greatest(S) == CHOOSE x \in S : \A y \in S : x >= y
\* the coordinate of an axis over the parameters xs given the overrides ov:
\* the override if there is one, else the minimum of the lows, the maximum
\* of the highs, the maximum of the bin hints, None if nothing defines it
Coord(xs, ov, f) ==
    LET k == CASE f = "low" -> 1 [] f = "high" -> 2 [] f = "bins" -> 3
        S == Defined(xs, f)
    IN  IF ov[k] # None THEN ov[k]
        ELSE IF S = {} THEN None
        ELSE IF f = "low" THEN Some(Least(S)) ELSE Some(Greatest(S))
AxisDefined(xs, ov) == \A f \in {"low", "high", "bins"} : Coord(xs, ov, f) # None
AxisIs(ax, xs, ov) ==
    /\ Some(ax.low)  = Coord(xs, ov, "low")
    /\ Some(ax.high) = Coord(xs, ov, "high")
    /\ Some(ax.bins) = Coord(xs, ov, "bins")

\* C18: the y axis of a Summary that was made, and the x and the y axis of a
\* PGamma that was made, have low the minimum of the lows its parameters
\* define, high the maximum of the highs, bins the maximum of the bin hints,
\* each replaced by the caller's value where one was given.
C18_AxisDefaults ==
    sp.ok => /\ call.fn = "Summary" => AxisIs(sp.yaxis, call.xs, call.yo)
             /\ call.fn = "PGamma"  => /\ AxisIs(sp.xaxis, call.xs, call.xo)
                                       /\ AxisIs(sp.yaxis, call.ys, call.yo)

\* a PGamma over two x parameters with different limits of which it got the
\* lower low and the higher high, and a y axis whose low the caller gave
C18_Witness ==
    /\ sp.ok /\ call.fn = "PGamma" /\ call.xo = <<None, None, None>>
    /\ Cardinality(Defined(call.xs, "low")) = 2 /\ sp.xaxis.low = 0 /\ sp.xaxis.high = 3
    /\ call.yo[1] # None /\ Defined(call.ys, "low") = {0} /\ sp.yaxis.low = 1

Missing ==
    {n \in PNames : /\ ~pdict[n].known
                    /\ \/ \E i \in 1..Len(call.xs) : call.xs[i] = n
                       \/ \E i \in 1..Len(call.ys) : call.ys[i] = n}

\* C20: when a name of a parameter list is not registered the constructor
\* fails with the unknown-parameter error naming such a parameter.
C20_UnknownParameter ==
    (call.fn # "none" /\ Missing # {}) =>
        ~sp.ok /\ sp.err.kind = "unknown" /\ sp.err.name \in Missing

\* ----------------------------------------------------------- flat events
\* the positions of the event at which the id was pushed
Pushed(id) == {i \in 1..Len(event) : event[i][1] = id}

\* C25: after the FlatEvent has loaded the event, flat[id] is Some of the
\* value pushed last for the id, None for an id the event does not have,
\* whatever the FlatEvent held before.
C25_FlatEventLoad ==
    call.fn = "load_event" =>
        \A id \in PNames :
            flat[id] = IF Pushed(id) = {} THEN None
                       ELSE Some(event[Greatest(Pushed(id))][2])

\* the FlatEvent held a value for an id that the event loaded does not have,
\* and the event has another id twice with two values
C25_Witness ==
    /\ call.fn = "load_event"
    /\ \E id \in PNames : call.before[id] # None /\ Pushed(id) = {} /\ flat[id] = None
    /\ \E id \in PNames : \E i \in Pushed(id), j \in Pushed(id) :
          i < j /\ event[i][2] # event[j][2]

\* ------------------------------------------------------------ parameter ids
\* the names that are registered
Registered == {n \in PNames : pdict[n].known}
\* the ids of the names of a list
IdsOf(xs) == [i \in 1..Len(xs) |-> pdict[xs[i]].id]

\* C26: the ids of the registered parameters are 1, 2, ... without gaps and
\* repeats; a parameter added gets the next one and the others keep theirs;
\* adding a registered name fails and changes nothing; a spectrum that was
\* made holds the ids of the names of its lists, in the order of the lists.
C26_ParameterIds ==
    [][/\ {pdict[n].id : n \in Registered}' = 1..Cardinality(Registered')
       /\ \A n \in Registered : n \in Registered' /\ pdict'[n].id = pdict[n].id
       /\ \A n \in Registered' \ Registered : pdict'[n].id = Cardinality(Registered) + 1
       /\ (call'.fn = "add" /\ call'.name \in Registered) =>
             ~call'.ok /\ pdict' = pdict /\ nextid' = nextid
       /\ (call'.fn = "add" /\ call'.name \notin Registered) =>
             call'.ok /\ call'.name \in Registered'
       /\ (call'.fn \in {"Summary", "PGamma"} /\ sp'.ok) =>
             sp'.xp = IdsOf(call'.xs) /\ sp'.yp = IdsOf(call'.ys)]_vars

\* a Summary made of two parameters that were added in the other order
C26_Witness ==
    /\ call.fn = "Summary" /\ sp.ok
    /\ call.xs = <<1, 2>> /\ pdict[1].id = 2 /\ sp.xp = <<2, 1>>

\* ------------------------------------------------------------- ring items
\* C28: the size of a ring item is 12 plus the length of its payload.  new
\* makes an item of size 12 with an empty payload, new_with_body_header one
\* of size 28 with a payload of 16 bytes.  Each add of a T appends exactly
\* size_of(T) bytes behind the payload there was, whose bytes stay as they
\* were.  write_item returns a byte count equal to size.
C28_Size ==
    /\ [](item # NoItem => item.size = 12 + Len(item.payload))
    /\ [](got.fn = "new" => item.size = 12 /\ item.payload = << >>)
    /\ [](got.fn = "new_with_body_header" => item.size = 28 /\ Len(item.payload) = 16)
    /\ [](got.fn = "write_item" => got.n = item.size)
    /\ [][got'.fn = "add" =>
            /\ Len(item'.payload) = Len(item.payload) + got'.size_of
            /\ SubSeq(item'.payload, 1, Len(item.payload)) = item.payload]_vars
C28_Witness ==
    /\ got.fn = "write_item" /\ got.n = 33
    /\ has_body_header(item) /\ Len(item.payload) = 21

\* C29: an item made by new has body_header_size 4 and get_bodyheader returns
\* None for it; an item made by new_with_body_header(t, stamp, source,
\* barrier) has body_header_size 20 and get_bodyheader returns exactly
\* (stamp, source, barrier); add and add_byte_vec change neither, and an
\* item has a body header exactly when its body_header_size is above 4.
BodyHeader(stamp, source, barrier) ==
    [timestamp |-> stamp, source_id |-> source, barrier_type |-> barrier]
C29_BodyHeader ==
    [][/\ got'.fn = "new" =>
            /\ item'.body_header_size = 4
            /\ ~has_body_header(item')
            /\ get_bodyheader(item') = [ok |-> TRUE, v |-> None]
       /\ got'.fn = "new_with_body_header" =>
            /\ item'.body_header_size = 20
            /\ has_body_header(item')
            /\ get_bodyheader(item') =
                   [ok |-> TRUE,
                    v  |-> Some(BodyHeader(got'.stamp, got'.source, got'.barrier))]
       /\ got'.fn \in {"add", "add_byte_vec"} =>
            /\ item'.body_header_size = item.body_header_size
            /\ get_bodyheader(item') = get_bodyheader(item)
       /\ has_body_header(item') <=> item'.body_header_size > 4]_vars
C29_Witness ==
    /\ got.fn = "add_byte_vec"
    /\ Len(item.payload) = 19
    /\ get_bodyheader(item).v = Some(BodyHeader(Range(u32) + 1, 2, 1))

\* C27: write_item followed by read_item on the bytes written gives an item
\* with the same size, type_id, body_header_size and payload, for every item
\* made by new or new_with_body_header and any adds.
C27_RoundTrip ==
    (got.fn = "read_item" /\ got.from = 0) =>
        /\ got.ok
        /\ got.item.size = item.size
        /\ got.item.type_id = item.type_id
        /\ got.item.body_header_size = item.body_header_size
        /\ got.item.payload = item.payload
C27_Witness ==
    /\ got.fn = "read_item" /\ got.from = 0 /\ got.ok
    /\ has_body_header(item) /\ Len(item.payload) = 21
    /\ got.item.type_id = PHYSICS_EVENT_COUNT /\ got.item.payload = item.payload

\* C30: systime_to_raw(raw_to_systime(r)) = r for every raw time r of 32
\* bits; raw_to_systime(systime_to_raw(t)) is t cut to whole seconds for a t
\* at or after the epoch whose seconds fit in 32 bits; systime_to_raw returns
\* the seconds modulo 2^32 (the range of a u32) for any t.
C30_RawTimes ==
    /\ got.fn = "raw_to_systime" => systime_to_raw(got.stamp) = got.raw
    /\ got.fn = "systime_to_raw" =>
        /\ got.raw = got.stamp.secs % Range(u32)
        /\ got.stamp.secs < Range(u32) =>
               raw_to_systime(got.raw) = SystemTime(got.stamp.secs, 0)
C30_Witness ==
    /\ got.fn = "systime_to_raw"
    /\ got.stamp.nanos # 0
    /\ got.stamp.secs > Range(u32)
    /\ got.raw = got.stamp.secs - Range(u32)

\* --------------------------------------------------------------- dispatch
\* what check of condition o returns on the event in flat when nothing is
\* cached
Fresh(o) == check(o, {o}, Start([x \in Obj |-> None]))
\* the bin contents of the spectra of a spectrum dictionary
BinsOf(sd) == [k \in DOMAIN sd |-> sd[k].hist]

\* C23: after the dispatch of an event (flatten, invalidate the cache of
\* every condition of the dictionary, handle_event on every spectrum), what
\* each spectrum saw of its gate's condition is the value of that condition
\* on the event just flattened, two spectra on one condition saw the same
\* value, and every cached value is the value of its condition on this event.
C23_SameValues ==
    (call.fn = "dispatch" /\ call.ok) =>
        /\ \A k \in DOMAIN sdict :
              /\ Fresh(sdict[k].gate.cond).ok
              /\ call.passed[k] = Some(Fresh(sdict[k].gate.cond).v)
        /\ \A j \in DOMAIN sdict, k \in DOMAIN sdict :
              sdict[j].gate.cond = sdict[k].gate.cond => call.passed[j] = call.passed[k]
        /\ \A o \in Obj :
              IsSome(cache[o]) => Fresh(o).ok /\ cache[o] = Some(Fresh(o).v)
\* both spectra are on one condition that was true on an earlier event and
\* is false on this one
C23_Witness ==
    /\ call.fn = "dispatch" /\ call.ok
    /\ sdict[1].gate.cond = sdict[2].gate.cond
    /\ call.passed = <<Some(FALSE), Some(FALSE)>>
    /\ Total(sdict[1].hist) = 1 /\ Total(sdict[2].hist) = 1

\* C24: the bin contents of all spectra after the dispatch of an event are
\* the same whatever the order the spectra are visited in.
C24_AnyOrder ==
    [][call'.fn = "dispatch" =>
          \A order \in Orders :
              LET r == dispatch(sdict, cache, order)
              IN  /\ r.ok = call'.ok
                  /\ r.ok => BinsOf(r.sd) = BinsOf(sdict')]_vars
\* the spectra are on two conditions, one of them a dependent of the other,
\* and one spectrum was incremented
C24_Witness ==
    /\ call.fn = "dispatch" /\ call.ok
    /\ call.order = <<2, 1>>
    /\ sdict[1].gate.cond = 3 /\ sdict[2].gate.cond = 2
    /\ 2 \in {deps[3][i] : i \in 1..Len(deps[3])}
    /\ call.passed = <<Some(TRUE), Some(FALSE)>>
    /\ Total(sdict[1].hist) = 1 /\ Total(sdict[2].hist) = 0

\* ------------------------------------------------------------------ cycles
\* C35: check() on a compound condition returns a boolean for every graph of
\* dependencies that Not::new and add_condition can build, one in which a
\* compound depends on itself included.
C35_CheckReturns == last.op = "check" => last.ok

\* ------------------------------------------------------------- empty lists
\* C36: an And whose dependency list is empty checks true and an Or whose
\* list is empty checks false, when nothing is cached for it: newly made, or
\* after clear() and invalidate_cache().
C36_EmptyList ==
    (/\ last.op = "check" /\ last.fresh
     /\ kind[last.obj] \in {"And", "Or"} /\ deps[last.obj] = << >>) =>
        /\ last.ok
        /\ last.res = (kind[last.obj] = "And")
C36_Witness ==
    /\ last.op = "check" /\ last.fresh
    /\ kind[last.obj] = "And" /\ deps[last.obj] = << >>
    /\ last.res
    /\ \E x \in Obj : Alive(x) /\ kind[x] = "False"

\* ------------------------------------------------------ order of dependents
\* C38: what a check of an And or an Or with nothing cached returns is
\* decided by its dependents as a set, whatever the order they were added
\* in: an And is true when every dependent is alive and checks true, and
\* false when one is dangling or checks false; an Or is true when one
\* dependent is alive and checks true, and false when every one is dangling
\* or checks false.  Each dependent is checked on its own from the state the
\* check started in.
C38_AnyOrder ==
    [][(/\ last'.op = "check" /\ last'.ok /\ last'.fresh
        /\ kind[last'.obj] \in {"And", "Or"}) =>
          LET o    == last'.obj
              D    == {deps[o][i] : i \in 1..Len(deps[o])}
              V(d) == check(d, {o, d}, Start(cache))
              T(d) == d # o /\ Alive(d) /\ V(d).ok /\ V(d).v
              F(d) == ~Alive(d) \/ (d # o /\ V(d).ok /\ ~V(d).v)
          IN  IF kind[o] = "And"
              THEN /\ last'.res => \A d \in D : T(d)
                   /\ ~last'.res => \E d \in D : F(d)
              ELSE /\ last'.res => \E d \in D : T(d)
                   /\ ~last'.res => \A d \in D : F(d)]_vars
C38_Witness ==
    /\ last.op = "check" /\ last.ok /\ last.fresh
    /\ kind[last.obj] = "And" /\ Len(deps[last.obj]) = 2
    /\ kind[deps[last.obj][1]] = "True" /\ Alive(deps[last.obj][1])
    /\ ~Alive(deps[last.obj][2])
    /\ ~last.res

\* ------------------------------------------------------- invalidate_cache
\* C37: invalidate_cache() on a Not, And or Or resets the cache of that
\* condition and nothing else: the dependency lists and the caches of all
\* other conditions stay as they were, and a dependent that has a cached
\* value still answers check() with it.
C37_OwnCacheOnly ==
    [][(call'.fn = "invalidate_cache" /\ kind[call'.obj] \in Compound) =>
          LET o == call'.obj
          IN  /\ cache'[o] = None
              /\ deps' = deps
              /\ \A x \in Obj \ {o} : cache'[x] = cache[x]
              /\ \A i \in 1..Len(deps[o]) :
                    LET x == deps[o][i]
                        r == check(x, {x}, Start(cache'))
                    IN  (x # o /\ Alive(x) /\ IsSome(cache[x])) =>
                            r.ok /\ r.v = Unwrap(cache[x]) /\ r.c = cache']_vars
C37_Witness ==
    /\ call.fn = "invalidate_cache"
    /\ kind[call.obj] = "And" /\ IsSome(call.had) /\ cache[call.obj] = None
    /\ \E i \in 1..Len(deps[call.obj]) :
          /\ deps[call.obj][i] # call.obj
          /\ Alive(deps[call.obj][i])
          /\ IsSome(cache[deps[call.obj][i]])

\* ------------------------------------------------------ count items
\* y has the body header, offset, divisor, source id and count of x
SameCounts(x, y) ==
    /\ y.body_header  = x.body_header
    /\ y.time_offset  = x.time_offset
    /\ y.time_divisor = x.time_divisor
    /\ y.original_sid = x.original_sid
    /\ y.event_count  = x.event_count
\* the version an item is read back with
VersionOf(x) == IF x.original_sid # None THEN "V12" ELSE "V11"
\* from_raw returns None exactly when the raw item is not a count item
NoneIffOtherType ==
    got.fn = "from_raw" =>
        ((got.res.ok /\ got.res.v = None) <=> item.type_id # PHYSICS_EVENT_COUNT)

\* C31 as stated: from_raw(to_raw(x), v), v the version that fits x, is x
\* with its absolute_time truncated to whole seconds, and from_raw returns
\* None exactly when the type is not PHYSICS_EVENT_COUNT
C31_Literal ==
    /\ NoneIffOtherType
    /\ (got.fn = "from_raw" /\ got.of # None /\ got.version = VersionOf(got.of[1])) =>
           /\ got.res.ok /\ got.res.v # None
           /\ SameCounts(got.of[1], got.res.v[1])
           /\ got.res.v[1].absolute_time = SystemTime(got.of[1].absolute_time.secs, 0)

\* C31 (amended): the same, the absolute_time of the result being that of x
\* truncated to whole seconds when the seconds of x fit in 32 bits, and its
\* whole seconds modulo 2^32 otherwise
C31_RoundTrip ==
    /\ NoneIffOtherType
    /\ (got.fn = "from_raw" /\ got.of # None /\ got.version = VersionOf(got.of[1])) =>
           LET x == got.of[1]
               y == got.res.v[1]
           IN  /\ got.res.ok /\ got.res.v # None
               /\ SameCounts(x, y)
               /\ y.absolute_time = SystemTime(x.absolute_time.secs % Range(u32), 0)
               /\ x.absolute_time.secs < Range(u32) =>
                      y.absolute_time = SystemTime(x.absolute_time.secs, 0)
C31_Witness ==
    /\ got.fn = "from_raw" /\ got.of # None /\ got.version = "V12"
    /\ got.of[1].original_sid = Some(3) /\ got.of[1].body_header # None
    /\ got.of[1].event_count > Range(u32)
    /\ got.res.v = got.of

\* ------------------------------------------------------ the event file
\* the bytes an entry of wrote put in the file
Chunk(e) == IF IsRaw(e) THEN e.raw ELSE write_item(e, NoFile).file.bytes
RECURSIVE Stream(_)
\* the bytes of the first k entries of wrote
Stream(k) == IF k = 0 THEN << >> ELSE Stream(k - 1) \o Chunk(wrote[k])
\* the file position behind the first k entries of wrote
Offset(k) == Len(Stream(k))
\* only whole items were written
OnlyItems == \A k \in 1..Len(wrote) : ~IsRaw(wrote[k])

\* C32: read_item fails by value and never returns a partial item:
\* HeaderReadFailed when the input ends inside one of the three header
\* words, InvalidHeader when the size word is below 12 (before the other
\* two words are looked at), FileTooSmall when fewer than size - 12 payload
\* bytes are left, and otherwise an item with a payload of size - 12 bytes
C32_ReadFails ==
    got.fn = "read_item" =>
        LET left == Len(file.bytes) - got.from
            size == from_ne_bytes(SubSeq(file.bytes, got.from + 1, got.from + u32))
        IN  /\ ~got.ok => got.item = NoItem
            /\ IF left < u32 THEN ~got.ok /\ got.err = "HeaderReadFailed"
               ELSE IF size < 12 THEN ~got.ok /\ got.err = "InvalidHeader"
               ELSE IF left < 3 * u32 THEN ~got.ok /\ got.err = "HeaderReadFailed"
               ELSE IF left < size THEN ~got.ok /\ got.err = "FileTooSmall"
               ELSE /\ got.ok
                    /\ got.item.size = size
                    /\ Len(got.item.payload) = size - 12
                    /\ file.pos = got.from + size
C32_Witness ==
    /\ got.fn = "read_item" /\ got.from = 13
    /\ got.err = "InvalidHeader" /\ Len(file.bytes) = 13 + u32

\* C33: when only whole items were written, one after another, the file
\* holds their bytes in order, a read_item at the start of the k+1st item
\* returns that item with identical fields and leaves the file at the
\* start of the next, and a read_item behind the last returns
\* HeaderReadFailed
C33_Framing ==
    OnlyItems =>
        /\ file.bytes = Stream(Len(wrote))
        /\ got.fn = "write_item" => got.n = wrote[Len(wrote)].size
        /\ got.fn = "read_item" =>
               \A k \in 0..Len(wrote) :
                   got.from = Offset(k) =>
                       IF k < Len(wrote)
                       THEN /\ got.ok /\ got.item = wrote[k + 1]
                            /\ file.pos = Offset(k + 1)
                            /\ file.pos = got.from + wrote[k + 1].size
                       ELSE ~got.ok /\ got.err = "HeaderReadFailed"
C33_Witness ==
    /\ OnlyItems /\ Len(wrote) = 3 /\ dump.pc = "idle"
    /\ wrote[2] # wrote[3] /\ has_body_header(wrote[3])
    /\ got.fn = "read_item" /\ got.from = Offset(2)
    /\ got.item = wrote[3]

\* C34: dump_items comes to an end on every file (by leaving its loop, or
\* by a panic while an item is shown); a turn of the loop whose read_item
\* succeeds moves the file on by at least 12 bytes, the first failing
\* read_item ends the loop, and nothing is read or shown after the end
C34_Terminates ==
    /\ (dump.pc = "loop") ~> (dump.pc \in {"done", "panicked"})
    /\ [][dump.pc = "loop" =>
             /\ got'.fn = "read_item" /\ got'.from = file.pos
             /\ dump'.turns = dump.turns + 1
             /\ IF got'.ok
                THEN file'.pos >= file.pos + 12 /\ dump'.pc \in {"loop", "panicked"}
                ELSE dump'.pc = "done"]_vars
    /\ [](12 * (dump.turns - 1) <= file.pos)
    /\ [][dump.pc \notin {"done", "panicked"}]_vars
C34_Witness ==
    /\ dump.pc = "done" /\ Len(wrote) = 3
    /\ ~IsRaw(wrote[1]) /\ IsRaw(wrote[2]) /\ ~IsRaw(wrote[3])
    /\ got.fn = "read_item" /\ got.from = Offset(1) /\ got.err = "InvalidHeader"
    /\ file.pos < Len(file.bytes)

\* the body header of an item is inside its payload
BodyHeaderFits(it) ==
    has_body_header(it) => Len(it.payload) >= body_header_size /\ get_bodyheader(it).ok

\* C39: for every ring item made by new, new_with_body_header, add,
\* add_byte_vec or a successful read_item, has_body_header() implies a
\* payload of at least 16 bytes, so that get_bodyheader() returns a value
C39_BodyHeaderFits ==
    /\ item # NoItem => BodyHeaderFits(item)
    /\ (got.fn = "read_item" /\ got.ok) => BodyHeaderFits(got.item)

====
